---- MODULE Spec2Model ----
(***************************************************************************)
(* Walk-forward backtest engines of growwbot:                              *)
(*   - run_backtest               (server/backtest_engine.py)              *)
(*   - _simulate_symbol_intraday  (server/daily_picks_backtest.py)         *)
(*   - run_daily_picks_backtest   (server/daily_picks_backtest.py)         *)
(* together with the fee / exit-PnL calculator they call, the candle cache *)
(* get_candles (server/backtest_cache.py) and the exit rule of the live    *)
(* position monitor (server/position_monitor.py).                          *)
(*                                                                         *)
(* Prices are whole rupees, money amounts (fees, pnl, equity) are whole    *)
(* paise.  An Optional value is a sequence of length 0 (None) or 1.        *)
(***************************************************************************)
EXTENDS Integers, Sequences, FiniteSets, TLC

VARIABLES
    \* ---- exit rule of the two engines applied to one position and one bar
    ex_pos, ex_bar, ex_ltp, ex_bt, ex_sim, ex_mon, ex_pc,
    \* ---- run_backtest (generator)
    bt_pc, bt_candles, bt_i, bt_open_position, bt_trades, bt_equity_curve,
    bt_realized_pnl, bt_events, bt_eval, bt_opened, bt_signal_analysis_bound,
    bt_in, bt_current_equity, bt_called,
    \* ---- _simulate_symbol_intraday (plain function, one call)
    sim_pc, sim_candles, sim_i, sim_open_position, sim_trades, sim_eval,
    sim_opened, sim_in, sim_returned, sim_caught,
    \* ---- run_daily_picks_backtest (generator) and its worker pool
    dp_pc, dp_in, dp_trading_days, dp_day_idx, dp_current_equity,
    dp_all_trades, dp_daily_trades, dp_equity_curve, dp_events, dp_tasks,
    dp_cur, dp_trade_idx,
    \* ---- get_candles (backtest_cache.py): two calls, the persisted store
    \* and the data source
    cache_call, cache_store, cache_source, cache_clock,
    \* ---- _compute_metrics (pure function, one call)
    met_pc, met_in, met_out,
    \* ---- calculate_fees / compute_exit_pnl of utils/fees.py and of
    \* position_monitor.py (pure functions, called on two argument tuples)
    fee_pc, fee_in, fee_out,
    \* ---- live trading: configuration and trade ledger (trades_db.py)
    \* lv_faults: how many failures in a row the environment of a run
    \* inflicts on the monitor
    lv_config, lv_ledger, lv_faults,
    \* ---- PositionMonitor._monitor_loop (thread); pm_cycle, pm_failed_cycles
    \* and pm_last_exit record what the cycles did
    pm_pc, pm_open_trades, pm_idx, pm_ltp_map, pm_poll_interval,
    pm_consecutive_failures, pm_cycle, pm_failed_cycles, pm_last_exit,
    \* ---- AlgoEngine._loop (thread)
    ae_pc, ae_open_positions, ae_idx, ae_ltp_map, ae_candidates,
    ae_total_open, ae_algo, ae_stale_closed

exVars  == <<ex_pos, ex_bar, ex_ltp, ex_bt, ex_sim, ex_mon, ex_pc>>
btVars  == <<bt_pc, bt_candles, bt_i, bt_open_position, bt_trades,
             bt_equity_curve, bt_realized_pnl, bt_events, bt_eval, bt_opened,
             bt_signal_analysis_bound, bt_in, bt_current_equity,
             bt_called>>
simVars == <<sim_pc, sim_candles, sim_i, sim_open_position, sim_trades,
             sim_eval, sim_opened, sim_in, sim_returned, sim_caught>>
dpVars  == <<dp_pc, dp_in, dp_trading_days, dp_day_idx, dp_current_equity,
             dp_all_trades, dp_daily_trades, dp_equity_curve, dp_events,
             dp_tasks, dp_cur, dp_trade_idx>>
cacheVars == <<cache_call, cache_store, cache_source, cache_clock>>
metVars == <<met_pc, met_in, met_out>>
feeVars == <<fee_pc, fee_in, fee_out>>
pmVars  == <<pm_pc, pm_open_trades, pm_idx, pm_ltp_map, pm_poll_interval,
             pm_consecutive_failures, pm_cycle, pm_failed_cycles,
             pm_last_exit>>
aeVars  == <<ae_pc, ae_open_positions, ae_idx, ae_ltp_map, ae_candidates,
             ae_total_open, ae_algo, ae_stale_closed>>
lvVars  == <<lv_config, lv_ledger, lv_faults, pmVars, aeVars>>
vars    == <<exVars, btVars, simVars, dpVars, cacheVars, metVars, feeVars,
             lvVars>>

\* what the steps of one component leave alone
exOthers  == <<btVars, simVars, dpVars, cacheVars, metVars, feeVars,
               lvVars>>
btOthers  == <<exVars, simVars, dpVars, cacheVars, metVars, feeVars,
               lvVars>>
simOthers == <<exVars, btVars, dpVars, cacheVars, metVars, feeVars,
               lvVars>>
dpOthers  == <<exVars, btVars, simVars, cacheVars, metVars, feeVars,
               lvVars>>
cacheOthers == <<exVars, btVars, simVars, dpVars, metVars, feeVars,
               lvVars>>
metOthers == <<exVars, btVars, simVars, dpVars, cacheVars, feeVars,
               lvVars>>
feeOthers == <<exVars, btVars, simVars, dpVars, cacheVars, metVars,
               lvVars>>
lvOthers  == <<exVars, btVars, simVars, dpVars, cacheVars, metVars, feeVars>>

----------------------------------------------------------------------------
(* Generic helpers *)

Abs(x) == IF x < 0 THEN -x ELSE x

Min2(a, b) == IF a <= b THEN a ELSE b

Max2(a, b) == IF a >= b THEN a ELSE b

None == <<>>

Some(x) == <<x>>

IsNone(o) == Len(o) = 0

Last(s) == s[Len(s)]

RECURSIVE SumPnl(_)
SumPnl(ts) == IF Len(ts) = 0 THEN 0 ELSE ts[1].pnl + SumPnl(Tail(ts))

----------------------------------------------------------------------------
(* Fee and exit-PnL calculator (utils/fees.py, position_monitor.py).       *)
(* Fee components are computed in units of 1e-8 rupee; one paise is 10^6   *)
(* of them.  round(x, 2) is rounding to the nearest paise, ties to even.   *)

UnitsPerPaise == 1000000

BROKERAGE_PER_ORDER == 2000000000

BROKERAGE_RATE == 30000

STT_INTRADAY_SELL_RATE == 25000

STT_DELIVERY_RATE == 100000

EXCHANGE_TXN_RATE == 3450

SEBI_RATE == 100

STAMP_DUTY_RATE == 3000

GST_PERCENT == 18

\* round(total, 2) of a non-negative amount given as whole paise p plus a
\* remainder r (in units, possibly several paise worth)
RoundToPaise(p, r) ==
    LET q    == p + (r \div UnitsPerPaise)
        rest == r % UnitsPerPaise
    IN  IF 2 * rest > UnitsPerPaise THEN q + 1
        ELSE IF 2 * rest < UnitsPerPaise THEN q
        ELSE IF q % 2 = 0 THEN q ELSE q + 1

\* calculate_fees(price, qty, side, trade_type)["total"], in paise
calculate_fees(price, qty, side, trade_type) ==
    LET turnover     == price * qty
        brokerage    == IF turnover * 3 <= 200000
                        THEN turnover * BROKERAGE_RATE
                        ELSE BROKERAGE_PER_ORDER
        stt          == IF trade_type = "INTRADAY"
                        THEN (IF side = "SELL"
                              THEN turnover * STT_INTRADAY_SELL_RATE ELSE 0)
                        ELSE turnover * STT_DELIVERY_RATE
        exchange_txn == turnover * EXCHANGE_TXN_RATE
        sebi         == turnover * SEBI_RATE
        stamp_duty   == IF side = "BUY" THEN turnover * STAMP_DUTY_RATE ELSE 0
        \* (brokerage + exchange_txn + sebi) * 0.18; every summand is a
        \* multiple of 100 units, so the product is a whole number of units
        gst          == ((brokerage \div 100) * GST_PERCENT)
                        + (((exchange_txn + sebi) \div 100) * GST_PERCENT)
        paise        == (brokerage \div UnitsPerPaise) + (stt \div UnitsPerPaise)
                        + (exchange_txn \div UnitsPerPaise)
                        + (sebi \div UnitsPerPaise)
                        + (stamp_duty \div UnitsPerPaise)
                        + (gst \div UnitsPerPaise)
        rem          == (brokerage % UnitsPerPaise) + (stt % UnitsPerPaise)
                        + (exchange_txn % UnitsPerPaise)
                        + (sebi % UnitsPerPaise)
                        + (stamp_duty % UnitsPerPaise)
                        + (gst % UnitsPerPaise)
    IN  RoundToPaise(paise, rem)

\* compute_exit_pnl(entry, exit, quantity, trade_type) -> (net_pnl, total_fees)
\* gross is whole rupees, both fees are whole paise, so the two final
\* round(., 2) calls leave the values as they are.
compute_exit_pnl(entry_price, exit_price, quantity, trade_type) ==
    LET gross      == (exit_price - entry_price) * quantity * 100
        fees_entry == calculate_fees(entry_price, quantity, "BUY", trade_type)
        fees_exit  == calculate_fees(exit_price, quantity, "SELL", trade_type)
        total_fees == fees_entry + fees_exit
        net        == gross - total_fees
    IN  [net_pnl |-> net, total_fees |-> total_fees]

----------------------------------------------------------------------------
(* Exit-trigger decision of the two engines for one open position and one  *)
(* bar.  Result: [trigger, price], trigger "NONE" when nothing fires.      *)

NoExit == [trigger |-> "NONE", price |-> 0]

\* backtest_engine.py, run_backtest, lines 226-242
BtExitTriggerStrictTie(pos, candle) ==
    IF candle.high >= pos.target /\ candle.low <= pos.stop_loss
    THEN IF Abs(pos.target - candle.open) < Abs(candle.open - pos.stop_loss)
         THEN [trigger |-> "TARGET", price |-> pos.target]
         ELSE [trigger |-> "SL", price |-> pos.stop_loss]
    ELSE IF candle.high >= pos.target
    THEN [trigger |-> "TARGET", price |-> pos.target]
    ELSE IF candle.low <= pos.stop_loss
    THEN [trigger |-> "SL", price |-> pos.stop_loss]
    ELSE NoExit

BtExitTrigger(pos, candle) ==
    IF candle.high >= pos.target /\ candle.low <= pos.stop_loss
    THEN IF Abs(pos.target - candle.open) <= Abs(candle.open - pos.stop_loss)
         THEN [trigger |-> "TARGET", price |-> pos.target]
         ELSE [trigger |-> "SL", price |-> pos.stop_loss]
    ELSE IF candle.high >= pos.target
    THEN [trigger |-> "TARGET", price |-> pos.target]
    ELSE IF candle.low <= pos.stop_loss
    THEN [trigger |-> "SL", price |-> pos.stop_loss]
    ELSE NoExit

\* daily_picks_backtest.py, _simulate_symbol_intraday, lines 86-109
SimExitTrigger(pos, candle) ==
    LET is_long == pos.entry_price > pos.stop_loss
    IN  IF is_long
        THEN IF candle.low <= pos.stop_loss
             THEN [trigger |-> "SL", price |-> pos.stop_loss]
             ELSE IF candle.high >= pos.target
             THEN [trigger |-> "TARGET", price |-> pos.target]
             ELSE NoExit
        ELSE IF candle.high >= pos.stop_loss
             THEN [trigger |-> "SL", price |-> pos.stop_loss]
             ELSE IF candle.low <= pos.target
             THEN [trigger |-> "TARGET", price |-> pos.target]
             ELSE NoExit

\* position_monitor.py, PositionMonitor._check_exit, lines 204-224 and 233:
\* the live monitor decides on the last traded price and exits at it
MonitorExitTriggerStrict(trade, ltp) ==
    LET is_long == trade.entry_price > trade.stop_loss
    IN  IF is_long
        THEN IF ltp < trade.stop_loss
             THEN [trigger |-> "SL", price |-> ltp]
             ELSE IF ltp >= trade.target
             THEN [trigger |-> "TARGET", price |-> ltp]
             ELSE NoExit
        ELSE IF ltp >= trade.stop_loss
             THEN [trigger |-> "SL", price |-> ltp]
             ELSE IF ltp <= trade.target
             THEN [trigger |-> "TARGET", price |-> ltp]
             ELSE NoExit

MonitorExitTrigger(trade, ltp) ==
    LET is_long == trade.entry_price > trade.stop_loss
    IN  IF is_long
        THEN IF ltp <= trade.stop_loss
             THEN [trigger |-> "SL", price |-> ltp]
             ELSE IF ltp >= trade.target
             THEN [trigger |-> "TARGET", price |-> ltp]
             ELSE NoExit
        ELSE IF ltp >= trade.stop_loss
             THEN [trigger |-> "SL", price |-> ltp]
             ELSE IF ltp <= trade.target
             THEN [trigger |-> "TARGET", price |-> ltp]
             ELSE NoExit

----------------------------------------------------------------------------
(* The exit rule of both engines applied to one position and one bar, and  *)
(* the live monitor's rule applied to the same position and one price.     *)

MaxPrice == 5

Prices == 1..MaxPrice

ExPositions ==
    [entry_price : Prices, stop_loss : Prices, target : Prices]

ExBars ==
    {b \in [open : Prices, high : Prices, low : Prices] :
        b.low <= b.open /\ b.open <= b.high}

ExIdle ==
    /\ ex_pc = "idle"
    /\ ex_pos = [entry_price |-> 0, stop_loss |-> 0, target |-> 0]
    /\ ex_bar = [open |-> 0, high |-> 0, low |-> 0]
    /\ ex_ltp = 0
    /\ ex_bt = NoExit
    /\ ex_sim = NoExit
    /\ ex_mon = NoExit

ExInit ==
    /\ ex_pc = "ready"
    /\ ex_pos \in ExPositions
    /\ ex_bar \in ExBars
    /\ ex_ltp \in {ex_bar.open, ex_bar.high, ex_bar.low}
    /\ ex_bt = NoExit
    /\ ex_sim = NoExit
    /\ ex_mon = NoExit

\* one exit check of run_backtest and one of _simulate_symbol_intraday on
\* the same position and bar (time-based exit not yet due), and one
\* _check_exit of the live monitor on a price of that bar
ExApply ==
    /\ ex_pc = "ready"
    /\ ex_bt' = BtExitTrigger(ex_pos, ex_bar)
    /\ ex_sim' = SimExitTrigger(ex_pos, ex_bar)
    /\ ex_mon' = MonitorExitTrigger(ex_pos, ex_ltp)
    /\ ex_pc' = "applied"
    /\ UNCHANGED <<ex_pos, ex_bar, ex_ltp>>
    /\ UNCHANGED exOthers

----------------------------------------------------------------------------
(* Candle series and strategy-evaluator outcomes used as inputs.           *)

WarmUp == 30

BarSeconds == 300

MaxFreeBars == 3

InitialCapital == 10000000

WarmShape == [open |-> 100, high |-> 102, low |-> 98, close |-> 100]

\* bars that touch both levels of a 95/105 position (open nearer the stop,
\* exactly in the middle, nearer the target), only the target, only the stop
\* or neither
BarShapes ==
    { [open |-> 97,  high |-> 106, low |-> 94, close |-> 100],
      [open |-> 100, high |-> 106, low |-> 94, close |-> 100],
      [open |-> 103, high |-> 106, low |-> 94, close |-> 101],
      [open |-> 100, high |-> 106, low |-> 98, close |-> 104],
      [open |-> 100, high |-> 102, low |-> 94, close |-> 96],
      WarmShape }

\* candle number k (0-based) of a series: strictly ascending times
MkCandle(k, shape) ==
    [time |-> (k + 1) * BarSeconds, open |-> shape.open, high |-> shape.high,
     low |-> shape.low, close |-> shape.close]

WarmSeries(n) == [k \in 1..n |-> MkCandle(k - 1, WarmShape)]

FullSeries(free) ==
    [k \in 1..(WarmUp + Len(free)) |->
        IF k <= WarmUp THEN MkCandle(k - 1, WarmShape)
        ELSE MkCandle(k - 1, free[k - WarmUp])]

CandleSeriesSet ==
    {WarmSeries(n) : n \in {0, 1, WarmUp - 1, WarmUp}}
    \cup UNION {{FullSeries(f) : f \in [1..m -> BarShapes]} : m \in 1..MaxFreeBars}

\* a series with a progress step of 2 bars and an odd last index
LongSeries == WarmSeries(42)

\* what algo.evaluate can do: return None, raise, return a SKIP signal or a
\* BUY signal; the engines use the signal's fields verbatim
Signals ==
    { [action |-> "SKIP", entry_price |-> 100, stop_loss |-> 95, target |-> 105,
       quantity |-> 10, reason |-> "skip"],
      [action |-> "BUY", entry_price |-> 100, stop_loss |-> 95, target |-> 105,
       quantity |-> 10, reason |-> "buy"],
      [action |-> "BUY", entry_price |-> 101, stop_loss |-> 97, target |-> 103,
       quantity |-> 5, reason |-> "buy"] }

EvalOutcomes ==
    {[kind |-> "return", signal |-> None], [kind |-> "raise", signal |-> None]}
    \cup {[kind |-> "return", signal |-> Some(sg)] : sg \in Signals}

\* arguments of algo.evaluate(symbol, candles[: i + 1], candle["close"], info)
EvalArgsLookAhead(candles, i) ==
    [i |-> i, candles |-> SubSeq(candles, 1, Min2(i + 2, Len(candles))),
     ltp |-> candles[i + 1].close]

EvalArgs(candles, i) ==
    [i |-> i, candles |-> SubSeq(candles, 1, i + 1), ltp |-> candles[i + 1].close]

\* what is remembered of an evaluate call: its arguments and how it ended
EvalCall(args, out) ==
    [i |-> args.i, candles |-> args.candles, ltp |-> args.ltp,
     outcome |-> out.kind]

\* backtest_engine.py lines 280-285, daily_picks_backtest.py lines 156-169:
\* evaluate is called inside try / except Exception, so no exception of the
\* evaluator leaves the call site
EvalExceptionEscapesTry(out) == out.kind = "raise"

EvalExceptionEscapes(out) == FALSE

OpenFromSignalAtNextBar(sg, candle) ==
    [entry_price |-> sg.entry_price, stop_loss |-> sg.stop_loss,
     target |-> sg.target, quantity |-> sg.quantity,
     entry_time |-> candle.time + BarSeconds,
     trade_type |-> "INTRADAY", reason |-> sg.reason]

\* the Position opened from a BUY signal on a bar
OpenFromSignal(sg, candle) ==
    [entry_price |-> sg.entry_price, stop_loss |-> sg.stop_loss,
     target |-> sg.target, quantity |-> sg.quantity, entry_time |-> candle.time,
     trade_type |-> "INTRADAY", reason |-> sg.reason]

----------------------------------------------------------------------------
(* run_backtest (backtest_engine.py): a generator; every yield is a point  *)
(* where it is suspended until its consumer resumes it.                    *)

Dates == 1..3

BtInputs ==
    [start_date : Dates, end_date : Dates, today : {2},
     fetch_raises : BOOLEAN, max_positions : {0, 1},
     initial_capital : {InitialCapital}]

BtValidInput(in) ==
    /\ in.start_date <= in.end_date
    /\ in.end_date <= in.today
    /\ ~in.fetch_raises

BtIdle ==
    /\ bt_pc = "idle"
    /\ bt_in = [start_date |-> 0, end_date |-> 0, today |-> 0,
                fetch_raises |-> FALSE, max_positions |-> 0,
                initial_capital |-> 0]
    /\ bt_candles = <<>>
    /\ bt_i = 0
    /\ bt_open_position = None
    /\ bt_trades = <<>>
    /\ bt_equity_curve = <<>>
    /\ bt_realized_pnl = 0
    /\ bt_current_equity = 0
    /\ bt_events = <<>>
    /\ bt_eval = None
    /\ bt_opened = 0
    /\ bt_signal_analysis_bound = FALSE
    /\ bt_called = {}

BtInit ==
    /\ bt_pc = "start"
    /\ bt_in \in BtInputs
    /\ bt_candles \in CandleSeriesSet \cup {LongSeries}
    \* rejected or failing runs never look at the candles, and accepted runs
    \* never look at the dates again: the full set of series is explored for
    \* one accepted date range, two series for every other input
    /\ (\/ ~BtValidInput(bt_in)
        \/ bt_in.start_date = bt_in.end_date)
          => bt_candles \in {WarmSeries(1), FullSeries(<<WarmShape>>)}
    \* the series of 42 bars is explored by the runs that open no position
    /\ (bt_in.max_positions = 0)
          => bt_candles \in {WarmSeries(1), FullSeries(<<WarmShape>>),
                             LongSeries}
    /\ (bt_in.max_positions # 0) => bt_candles # LongSeries
    /\ (bt_in.max_positions = 0) => BtValidInput(bt_in)
    /\ bt_i = 0
    /\ bt_open_position = None
    /\ bt_trades = <<>>
    /\ bt_equity_curve = <<>>
    /\ bt_realized_pnl = 0
    /\ bt_current_equity = 0
    /\ bt_events = <<>>
    /\ bt_eval = None
    /\ bt_opened = 0
    /\ bt_signal_analysis_bound = FALSE
    /\ bt_called = {}

BtErrorEvent ==
    [event_type |-> "complete", error |-> TRUE, metrics |-> <<>>,
     trades |-> <<>>, equity_curve |-> <<>>]

BtCompleteEvent(trades, equity_curve) ==
    [event_type |-> "complete", error |-> FALSE,
     metrics |-> <<Len(trades), SumPnl(trades)>>,
     trades |-> trades, equity_curve |-> equity_curve]

\* lines 174-192: the two date checks (ISO date strings, compared as
\* strings)
BtDatesRejectedInvertedOnly(start_date, end_date, today) ==
    start_date > end_date

BtDatesRejected(start_date, end_date, today) ==
    start_date > end_date \/ end_date > today

\* lines 173-216: validation, candle fetch, set-up of the bar loop.
\* bt_called collects the collaborators called so far: the candle cache
\* (line 194) and the strategy (set_runtime_params line 212, evaluate 281).
BtStart ==
    /\ bt_pc = "start"
    /\ UNCHANGED btOthers
    /\ IF BtDatesRejected(bt_in.start_date, bt_in.end_date, bt_in.today)
       THEN /\ bt_events' = Append(bt_events, BtErrorEvent)
            /\ bt_pc' = "complete_yield"
            /\ UNCHANGED bt_called
       ELSE IF bt_in.fetch_raises
       THEN \* cache_get_candles raised: nothing in run_backtest catches it
            /\ bt_pc' = "raised"
            /\ bt_called' = bt_called \cup {"cache_get_candles"}
            /\ UNCHANGED bt_events
       ELSE IF Len(bt_candles) = 0
       THEN /\ bt_events' = Append(bt_events, BtErrorEvent)
            /\ bt_pc' = "complete_yield"
            /\ bt_called' = bt_called \cup {"cache_get_candles"}
       ELSE /\ bt_pc' = "bar"
            /\ bt_called' = bt_called \cup {"cache_get_candles", "algo"}
            /\ UNCHANGED bt_events
    /\ UNCHANGED <<bt_in, bt_candles, bt_i, bt_open_position, bt_trades,
                   bt_equity_curve, bt_realized_pnl, bt_current_equity,
                   bt_eval, bt_opened, bt_signal_analysis_bound>>

\* line 263 after line 250: equity after a closure
BtEquityAfterCloseStale(initial_capital, realized_before, net_pnl) ==
    initial_capital + realized_before

BtEquityAfterClose(initial_capital, realized_before, net_pnl) ==
    initial_capital + (realized_before + net_pnl)

\* line 264: the event yielded for a closed trade carries the record that
\* was appended to trades
BtTradeEventBeforeFees(closed) ==
    [event_type |-> "trade", trade |-> [closed EXCEPT !.fees = 0]]

BtTradeEvent(closed) == [event_type |-> "trade", trade |-> closed]

\* lines 218-265: exit check of bar i; a closure is recorded and its event
\* yielded
BtExitCheck ==
    /\ bt_pc = "bar"
    /\ UNCHANGED btOthers
    /\ LET candle == bt_candles[bt_i + 1]
           x == IF IsNone(bt_open_position) THEN NoExit
                ELSE BtExitTrigger(bt_open_position[1], candle)
       IN  IF x.trigger # "NONE"
           THEN LET pos == bt_open_position[1]
                    r   == compute_exit_pnl(pos.entry_price, x.price,
                                            pos.quantity, pos.trade_type)
                    closed == [entry_price |-> pos.entry_price,
                               exit_price |-> x.price,
                               quantity |-> pos.quantity,
                               entry_time |-> pos.entry_time,
                               exit_time |-> candle.time,
                               pnl |-> r.net_pnl, fees |-> r.total_fees,
                               exit_trigger |-> x.trigger,
                               reason |-> pos.reason]
                IN  /\ bt_realized_pnl' = bt_realized_pnl + r.net_pnl
                    /\ bt_trades' = Append(bt_trades, closed)
                    /\ bt_current_equity' =
                          BtEquityAfterClose(bt_in.initial_capital,
                                             bt_realized_pnl, r.net_pnl)
                    /\ bt_events' = Append(bt_events, BtTradeEvent(closed))
                    /\ bt_pc' = "trade_yield"
           ELSE /\ bt_current_equity' = bt_in.initial_capital + bt_realized_pnl
                /\ bt_pc' = "entry"
                /\ UNCHANGED <<bt_realized_pnl, bt_trades, bt_events>>
    /\ UNCHANGED <<bt_called, bt_in, bt_candles, bt_i, bt_open_position,
                   bt_equity_curve,
                   bt_eval, bt_opened, bt_signal_analysis_bound>>

\* line 265: resumed after the trade event
BtAfterTrade ==
    /\ bt_pc = "trade_yield"
    /\ UNCHANGED btOthers
    /\ bt_open_position' = None
    /\ bt_pc' = "entry"
    /\ UNCHANGED <<bt_called, bt_in, bt_candles, bt_i, bt_trades, bt_equity_curve,
                   bt_realized_pnl, bt_current_equity, bt_events, bt_eval,
                   bt_opened, bt_signal_analysis_bound>>

\* line 269: the evaluator is called only when flat and warmed up
BtShouldEvaluateAlways(open_position, i) == i >= WarmUp

BtShouldEvaluate(open_position, i) == IsNone(open_position) /\ i >= WarmUp

BtProgressDueOnStepOnly(i, total_bars) ==
    total_bars > 0 /\ i % Max2(1, total_bars \div 20) = 0

\* line 297
BtProgressDue(i, total_bars) ==
    total_bars > 0 /\ (i % Max2(1, total_bars \div 20) = 0 \/ i = total_bars - 1)

BtNextPc(i, total_bars) == IF i + 1 < total_bars THEN "bar" ELSE "post_loop"

\* lines 267-306: equity point, entry evaluation, progress event of bar i
BtEntry ==
    /\ bt_pc = "entry"
    /\ UNCHANGED btOthers
    /\ LET candle == bt_candles[bt_i + 1]
           total_bars == Len(bt_candles)
           evaluates == BtShouldEvaluate(bt_open_position, bt_i)
       IN  /\ bt_equity_curve' = Append(bt_equity_curve,
                 [time |-> candle.time, equity |-> bt_current_equity])
           /\ \E out \in IF evaluates THEN EvalOutcomes
                          ELSE {[kind |-> "not called", signal |-> None]} :
                /\ IF evaluates
                   THEN bt_eval' = Some(EvalCall(EvalArgs(bt_candles, bt_i),
                                                 out))
                   ELSE UNCHANGED bt_eval
                /\ IF /\ out.kind = "return"
                      /\ ~IsNone(out.signal)
                      /\ out.signal[1].action = "BUY"
                      /\ bt_in.max_positions >= 1
                   THEN /\ bt_open_position' =
                             Some(OpenFromSignal(out.signal[1], candle))
                        /\ bt_opened' = bt_opened + 1
                   ELSE UNCHANGED <<bt_open_position, bt_opened>>
                /\ IF evaluates /\ EvalExceptionEscapes(out)
                   THEN \* the exception leaves the generator
                        /\ bt_pc' = "raised"
                        /\ UNCHANGED <<bt_i, bt_events>>
                   ELSE IF BtProgressDue(bt_i, total_bars)
                   THEN /\ bt_events' = Append(bt_events,
                              [event_type |-> "progress",
                               bars_processed |-> bt_i + 1,
                               total_bars |-> total_bars])
                        /\ bt_pc' = "progress_yield"
                        /\ UNCHANGED bt_i
                   ELSE /\ bt_i' = bt_i + 1
                        /\ bt_pc' = BtNextPc(bt_i, total_bars)
                        /\ UNCHANGED bt_events
    /\ UNCHANGED <<bt_called, bt_in, bt_candles, bt_trades, bt_realized_pnl,
                   bt_current_equity, bt_signal_analysis_bound>>

\* resumed after a progress event: next bar, or leave the loop
BtAfterProgress ==
    /\ bt_pc = "progress_yield"
    /\ UNCHANGED btOthers
    /\ bt_i' = bt_i + 1
    /\ bt_pc' = BtNextPc(bt_i, Len(bt_candles))
    /\ UNCHANGED <<bt_called, bt_in, bt_candles, bt_open_position, bt_trades,
                   bt_equity_curve, bt_realized_pnl, bt_current_equity,
                   bt_events, bt_eval, bt_opened, bt_signal_analysis_bound>>

\* lines 306-325: nothing after the bar loop touches open_position or
\* trades; a position the loop left open gets no closed trade
BtTradesAfterLoopForceClosed(open_position, trades, candles) ==
    IF ~IsNone(open_position)
    THEN LET pos == open_position[1]
             last_candle == candles[Len(candles)]
             r == compute_exit_pnl(pos.entry_price, last_candle.close,
                                   pos.quantity, pos.trade_type)
         IN  Append(trades,
                 [entry_price |-> pos.entry_price,
                  exit_price |-> last_candle.close,
                  quantity |-> pos.quantity, entry_time |-> pos.entry_time,
                  exit_time |-> last_candle.time, pnl |-> r.net_pnl,
                  fees |-> r.total_fees, exit_trigger |-> "EOD",
                  reason |-> pos.reason])
    ELSE trades

BtTradesAfterLoop(open_position, trades, candles) == trades

\* lines 308-332: line 311 reads the local signal_analysis, which is bound
\* only by line 323; reading it unbound raises UnboundLocalError
BtPostLoop ==
    /\ bt_pc = "post_loop"
    /\ UNCHANGED btOthers
    /\ IF ~bt_signal_analysis_bound
       THEN /\ bt_pc' = "raised"
            /\ UNCHANGED <<bt_events, bt_signal_analysis_bound>>
       ELSE /\ bt_signal_analysis_bound' = TRUE
            /\ bt_events' = Append(bt_events,
                  BtCompleteEvent(bt_trades, bt_equity_curve))
            /\ bt_pc' = "complete_yield"
    /\ bt_trades' = BtTradesAfterLoop(bt_open_position, bt_trades,
                                      bt_candles)
    /\ UNCHANGED <<bt_called, bt_in, bt_candles, bt_i, bt_open_position,
                   bt_equity_curve, bt_realized_pnl, bt_current_equity,
                   bt_eval, bt_opened>>

\* resumed after a terminal event: the generator returns
BtReturn ==
    /\ bt_pc = "complete_yield"
    /\ UNCHANGED btOthers
    /\ bt_pc' = "done"
    /\ UNCHANGED <<bt_called, bt_in, bt_candles, bt_i, bt_open_position,
                   bt_trades,
                   bt_equity_curve, bt_realized_pnl, bt_current_equity,
                   bt_events, bt_eval, bt_opened, bt_signal_analysis_bound>>

----------------------------------------------------------------------------
(* _simulate_symbol_intraday (daily_picks_backtest.py): one call, run by a *)
(* worker thread; the whole body is inside try/except Exception.           *)

SimInputs ==
    [fetch_raises : BOOLEAN, max_trade_duration_minutes : {5, 10},
     symbol : {"S1"}, date : {1}]

SimIdle ==
    /\ sim_pc = "idle"
    /\ sim_in = [fetch_raises |-> FALSE, max_trade_duration_minutes |-> 0,
                 symbol |-> "", date |-> 0]
    /\ sim_candles = <<>>
    /\ sim_i = 0
    /\ sim_open_position = None
    /\ sim_trades = <<>>
    /\ sim_eval = None
    /\ sim_opened = 0
    /\ sim_returned = None
    /\ sim_caught = FALSE

SimInit ==
    /\ sim_pc = "start"
    /\ sim_in \in SimInputs
    /\ sim_candles \in CandleSeriesSet
    /\ sim_in.fetch_raises => sim_candles = FullSeries(<<WarmShape>>)
    /\ sim_i = 0
    /\ sim_open_position = None
    /\ sim_trades = <<>>
    /\ sim_eval = None
    /\ sim_opened = 0
    /\ sim_returned = None
    /\ sim_caught = FALSE

\* lines 66-81: candle fetch and the minimum-length check
SimStart ==
    /\ sim_pc = "start"
    /\ UNCHANGED simOthers
    /\ IF sim_in.fetch_raises
       THEN \* get_candles raised: caught by line 194, line 197 returns
            /\ sim_returned' = Some(sim_trades)
            /\ sim_caught' = TRUE
            /\ sim_pc' = "returned"
       ELSE IF Len(sim_candles) = 0 \/ Len(sim_candles) < WarmUp
       THEN /\ sim_returned' = Some(sim_trades)
            /\ sim_pc' = "returned"
            /\ UNCHANGED sim_caught
       ELSE /\ sim_pc' = "bar"
            /\ UNCHANGED <<sim_returned, sim_caught>>
    /\ UNCHANGED <<sim_in, sim_candles, sim_i, sim_open_position, sim_trades,
                   sim_eval, sim_opened>>

\* lines 112-118: time-based exit, checked only when SL/TARGET did not fire
SimTimeExitDueStrict(pos, candle, max_minutes) ==
    (candle.time - pos.entry_time) > 60 * max_minutes

SimTimeExitDue(pos, candle, max_minutes) ==
    (candle.time - pos.entry_time) >= 60 * max_minutes

SimTrade(pos, exit_price, exit_time, trigger, trade_type) ==
    LET r == compute_exit_pnl(pos.entry_price, exit_price, pos.quantity,
                              trade_type)
    IN  [symbol |-> sim_in.symbol, entry_price |-> pos.entry_price,
         exit_price |-> exit_price, quantity |-> pos.quantity,
         entry_time |-> pos.entry_time, exit_time |-> exit_time,
         pnl |-> r.net_pnl, fees |-> r.total_fees, exit_trigger |-> trigger,
         reason |-> pos.reason, date |-> sim_in.date]

\* lines 85-141: the exit decision of bar i for an open position
SimExitDecision(pos, candle, max_minutes) ==
    LET x == SimExitTrigger(pos, candle)
    IN  IF x.trigger # "NONE" THEN x
        ELSE IF SimTimeExitDue(pos, candle, max_minutes)
        THEN [trigger |-> "TIME_EXIT", price |-> candle.close]
        ELSE NoExit

\* line 144
SimShouldEvaluateEarly(open_position, i) ==
    IsNone(open_position) /\ i >= WarmUp - 1

SimShouldEvaluate(open_position, i) == IsNone(open_position) /\ i >= WarmUp

\* lines 83-169: one iteration of the bar loop
SimBar ==
    /\ sim_pc = "bar"
    /\ UNCHANGED simOthers
    /\ LET candle == sim_candles[sim_i + 1]
           x == IF IsNone(sim_open_position) THEN NoExit
                ELSE SimExitDecision(sim_open_position[1], candle,
                                     sim_in.max_trade_duration_minutes)
           closing == x.trigger # "NONE"
           posAfterExit == IF closing THEN None ELSE sim_open_position
           tradesAfterExit ==
               IF closing
               THEN Append(sim_trades,
                        SimTrade(sim_open_position[1], x.price, candle.time,
                                 x.trigger, sim_open_position[1].trade_type))
               ELSE sim_trades
       IN  /\ sim_trades' = tradesAfterExit
           /\ IF SimShouldEvaluate(posAfterExit, sim_i)
              THEN \E out \in EvalOutcomes :
                     /\ sim_eval' = Some(EvalCall(
                                          EvalArgs(sim_candles, sim_i), out))
                     /\ IF /\ out.kind = "return"
                           /\ ~IsNone(out.signal)
                           /\ out.signal[1].action = "BUY"
                        THEN /\ sim_open_position' =
                                  Some(OpenFromSignal(out.signal[1], candle))
                             /\ sim_opened' = sim_opened + 1
                        ELSE /\ sim_open_position' = posAfterExit
                             /\ UNCHANGED sim_opened
                     /\ IF EvalExceptionEscapes(out)
                        THEN \* caught by the function's outer handler
                             \* (line 194), line 197 returns the trades
                             /\ sim_returned' = Some(tradesAfterExit)
                             /\ sim_caught' = TRUE
                             /\ sim_pc' = "returned"
                             /\ UNCHANGED sim_i
                        ELSE /\ sim_i' = sim_i + 1
                             /\ sim_pc' = IF sim_i + 1 < Len(sim_candles)
                                          THEN "bar" ELSE "eod"
                             /\ UNCHANGED <<sim_returned, sim_caught>>
              ELSE /\ sim_open_position' = posAfterExit
                   /\ sim_i' = sim_i + 1
                   /\ sim_pc' = IF sim_i + 1 < Len(sim_candles) THEN "bar"
                                ELSE "eod"
                   /\ UNCHANGED <<sim_eval, sim_opened, sim_returned,
                                  sim_caught>>
    /\ UNCHANGED <<sim_in, sim_candles>>

\* lines 83-197: an exception in the body of the bar loop outside the
\* guarded evaluate call (a malformed candle or position field, an error in
\* the P&L computation) leaves the loop at bar i; the handler of line 194
\* logs it and line 197 returns the trades collected so far
SimBarRaises ==
    /\ sim_pc = "bar"
    /\ UNCHANGED simOthers
    /\ sim_caught' = TRUE
    /\ sim_returned' = Some(sim_trades)
    /\ sim_pc' = "returned"
    /\ UNCHANGED <<sim_in, sim_candles, sim_i, sim_open_position, sim_trades,
                   sim_eval, sim_opened>>

\* lines 171-192: a position left open by the loop is closed at the last
\* bar's close
SimEodTradesNone(open_position, trades, candles) == trades

SimEodTrades(open_position, trades, candles) ==
    IF ~IsNone(open_position)
    THEN LET last_candle == candles[Len(candles)]
         IN  Append(trades,
                 SimTrade(open_position[1], last_candle.close,
                          last_candle.time, "EOD", "INTRADAY"))
    ELSE trades

\* lines 171-197: end-of-day closure and return
SimEod ==
    /\ sim_pc = "eod"
    /\ UNCHANGED simOthers
    /\ sim_trades' = SimEodTrades(sim_open_position, sim_trades, sim_candles)
    /\ sim_returned' = Some(sim_trades')
    /\ sim_pc' = "returned"
    /\ UNCHANGED sim_caught
    /\ UNCHANGED <<sim_in, sim_candles, sim_i, sim_open_position, sim_eval,
                   sim_opened>>

----------------------------------------------------------------------------
(* run_daily_picks_backtest (daily_picks_backtest.py): a generator that    *)
(* runs the per-symbol simulations of one day on a thread pool.            *)
(* Dates are day numbers; date d falls on weekday d % 7 (0 = Monday).      *)

MAX_WORKERS == 3

LastDate == 7

DateRange == 4..LastDate

\* lines 27-33
_is_trading_day(d) == ~((d % 7) >= 5)

\* lines 36-48: the trading days from start to end, ascending
RECURSIVE _get_trading_days(_, _)
_get_trading_days(start, end) ==
    IF start > end THEN <<>>
    ELSE IF _is_trading_day(start)
         THEN <<start>> \o _get_trading_days(start + 1, end)
         ELSE _get_trading_days(start + 1, end)

Candidate(sym, hc, pct) ==
    [symbol |-> sym, high_conviction |-> hc, day_change_pct |-> pct]

\* what the daily-picks source returns for a date: nothing, or candidates
SnapshotOptions ==
    { None,
      Some(<<Candidate("S1", FALSE, 3), Candidate("S2", TRUE, 2)>>),
      Some(<<Candidate("S1", FALSE, 3), Candidate("S2", TRUE, 2),
             Candidate("S3", TRUE, 5), Candidate("S4", FALSE, 3)>>) }

\* what one per-symbol simulation returns: its list of closed trades
\* (lines 126-138: a trade carries the times of its entry and exit bars)
DpTrade(sym, date, pnl, fees, entry_bar, exit_bar) ==
    [symbol |-> sym, date |-> date, pnl |-> pnl, fees |-> fees,
     entry_time |-> (entry_bar + 1) * BarSeconds,
     exit_time |-> (exit_bar + 1) * BarSeconds]

\* every symbol's session covers the same bars of the day; the first entry
\* is possible on bar WarmUp, a re-entry on the bar of the previous exit
SimResults(sym, date) ==
    IF sym \in {"S1", "S3"}
    THEN { <<>>, <<DpTrade(sym, date, 50000, 120, WarmUp, WarmUp + 2)>> }
    ELSE { <<>>,
           <<DpTrade(sym, date, -30000, 110, WarmUp, WarmUp + 1),
             DpTrade(sym, date, 50000, 120, WarmUp + 1, WarmUp + 3)>> }

RECURSIVE SumFees(_)
SumFees(ts) == IF Len(ts) = 0 THEN 0 ELSE ts[1].fees + SumFees(Tail(ts))

\* list.sort(key=day_change_pct, reverse=True): stable, descending
RECURSIVE InsertDesc(_, _)
InsertDesc(sorted, c) ==
    IF Len(sorted) = 0 THEN <<c>>
    ELSE IF sorted[1].day_change_pct >= c.day_change_pct
         THEN <<sorted[1]>> \o InsertDesc(Tail(sorted), c)
         ELSE <<c>> \o sorted

RECURSIVE SortDesc(_)
SortDesc(cs) ==
    IF Len(cs) = 0 THEN <<>>
    ELSE InsertDesc(SortDesc(SubSeq(cs, 1, Len(cs) - 1)), cs[Len(cs)])

SelectCandidatesByChangeOnly(candidates, max_positions_per_day) ==
    LET all == SortDesc(candidates)
    IN  SubSeq(all, 1, Min2(max_positions_per_day * 3, Len(all)))

\* lines 282-291
SelectCandidates(candidates, max_positions_per_day) ==
    LET hc_candidates    == SortDesc(SelectSeq(candidates,
                                LAMBDA c : c.high_conviction))
        other_candidates == SortDesc(SelectSeq(candidates,
                                LAMBDA c : ~c.high_conviction))
        max_candidates   == max_positions_per_day * 3
        all              == hc_candidates \o other_candidates
    IN  SubSeq(all, 1, Min2(max_candidates, Len(all)))

\* _compute_metrics, lines 103-106: every point of the curve is read with
\* point["time"]; a point without that key raises KeyError
ComputeMetricsRaises(equity_curve) ==
    \E k \in 1..Len(equity_curve) : "time" \notin DOMAIN equity_curve[k]

DpInputs ==
    [algo_found : BOOLEAN, start_date : 4..5,
     end_date : DateRange, snapshots : [DateRange -> SnapshotOptions],
     max_positions_per_day : {1, 2}, initial_capital : {InitialCapital}]

DpIdle ==
    /\ dp_pc = "idle"
    /\ dp_in = [algo_found |-> FALSE, start_date |-> 0, end_date |-> 0,
                snapshots |-> <<>>, max_positions_per_day |-> 0,
                initial_capital |-> 0]
    /\ dp_trading_days = <<>>
    /\ dp_day_idx = 0
    /\ dp_current_equity = 0
    /\ dp_all_trades = <<>>
    /\ dp_daily_trades = <<>>
    /\ dp_equity_curve = <<>>
    /\ dp_events = <<>>
    /\ dp_tasks = <<>>
    /\ dp_cur = 0
    /\ dp_trade_idx = 0

DpInit ==
    /\ dp_pc = "start"
    /\ dp_in \in DpInputs
    \* the picks of days that are not simulated are never read
    /\ \A d \in DateRange :
          (d \notin {_get_trading_days(dp_in.start_date, dp_in.end_date)[k] :
                       k \in 1..Len(_get_trading_days(dp_in.start_date,
                                                      dp_in.end_date))}
           \/ ~dp_in.algo_found)
          => dp_in.snapshots[d] = None
    \* more futures than pool threads are explored on single-day runs
    /\ dp_in.max_positions_per_day > 1 => dp_in.start_date = dp_in.end_date
    /\ dp_trading_days = <<>>
    /\ dp_day_idx = 0
    /\ dp_current_equity = 0
    /\ dp_all_trades = <<>>
    /\ dp_daily_trades = <<>>
    /\ dp_equity_curve = <<>>
    /\ dp_events = <<>>
    /\ dp_tasks = <<>>
    /\ dp_cur = 0
    /\ dp_trade_idx = 0

DpDate == dp_trading_days[dp_day_idx + 1]

DpNextDayPc(day_idx, trading_days) ==
    IF day_idx + 1 < Len(trading_days) THEN "day_top" ELSE "finish"

\* indices (into dp_tasks) of the futures of a date
DpTasksOf(tasks, date) == {k \in 1..Len(tasks) : tasks[k].date = date}

\* lines 234-252
DpStart ==
    /\ dp_pc = "start"
    /\ UNCHANGED dpOthers
    /\ LET trading_days == _get_trading_days(dp_in.start_date, dp_in.end_date)
       IN  IF ~dp_in.algo_found \/ Len(trading_days) = 0
           THEN /\ dp_events' = Append(dp_events, [event_type |-> "error"])
                /\ dp_pc' = "error_yield"
                /\ UNCHANGED <<dp_trading_days, dp_current_equity,
                               dp_equity_curve>>
           ELSE /\ dp_trading_days' = trading_days
                /\ dp_current_equity' = dp_in.initial_capital
                /\ dp_equity_curve' = <<[date |-> trading_days[1],
                                         equity |-> dp_in.initial_capital]>>
                /\ dp_pc' = "day_top"
                /\ UNCHANGED dp_events
    /\ UNCHANGED <<dp_in, dp_day_idx, dp_all_trades, dp_daily_trades,
                   dp_tasks, dp_cur, dp_trade_idx>>

\* lines 254-275: picks of the day and the day_start event
DpDayStart ==
    /\ dp_pc = "day_top"
    /\ UNCHANGED dpOthers
    /\ LET snapshot == dp_in.snapshots[DpDate]
       IN  IF IsNone(snapshot) \/ Len(snapshot[1]) = 0
           THEN /\ dp_events' = Append(dp_events,
                      [event_type |-> "day_start", date |-> DpDate,
                       candidates_count |-> 0])
                /\ dp_pc' = "skip_yield"
           ELSE /\ dp_events' = Append(dp_events,
                      [event_type |-> "day_start", date |-> DpDate,
                       candidates_count |-> Len(snapshot[1]),
                       current_equity |-> dp_current_equity])
                /\ dp_pc' = "day_start_yield"
    /\ UNCHANGED <<dp_in, dp_trading_days, dp_day_idx, dp_current_equity,
                   dp_all_trades, dp_daily_trades, dp_equity_curve, dp_tasks,
                   dp_cur, dp_trade_idx>>

\* line 263: continue with the next day
DpAfterSkip ==
    /\ dp_pc = "skip_yield"
    /\ UNCHANGED dpOthers
    /\ dp_day_idx' = dp_day_idx + 1
    /\ dp_pc' = DpNextDayPc(dp_day_idx, dp_trading_days)
    /\ UNCHANGED <<dp_in, dp_trading_days, dp_current_equity, dp_all_trades,
                   dp_daily_trades, dp_equity_curve, dp_events, dp_tasks,
                   dp_cur, dp_trade_idx>>

\* line 236 builds one evaluator object before the day loop; line 298
\* (algo=algo in process_candidate) hands that object to the simulation of
\* every candidate of every day.  The result is the identity of the
\* evaluator object the k-th simulation of a day works on.
DpEvaluatorOf(k) == "algo"

\* lines 278-307: selection and submission of one future per candidate
DpSubmit ==
    /\ dp_pc = "day_start_yield"
    /\ UNCHANGED dpOthers
    /\ LET selected == SelectCandidates(dp_in.snapshots[DpDate][1],
                                        dp_in.max_positions_per_day)
           futures  == [k \in 1..Len(selected) |->
                          [date |-> DpDate, symbol |-> selected[k].symbol,
                           state |-> "pending", basis |-> 0,
                           algo |-> DpEvaluatorOf(k),
                           result |-> <<>>, consumed |-> FALSE]]
       IN  dp_tasks' = dp_tasks \o futures
    /\ dp_daily_trades' = <<>>
    /\ dp_pc' = "collect"
    /\ UNCHANGED <<dp_in, dp_trading_days, dp_day_idx, dp_current_equity,
                   dp_all_trades, dp_equity_curve, dp_events, dp_cur,
                   dp_trade_idx>>

\* line 301: the capital basis handed to _simulate_symbol_intraday is the
\* generator's current_equity, read when the worker runs process_candidate
DpCapitalBasisInitial(current_equity, initial_capital) == initial_capital

DpCapitalBasis(current_equity, initial_capital) == current_equity

\* a pool thread takes the oldest queued future and calls process_candidate
DpWorkerStart ==
    /\ UNCHANGED dpOthers
    /\ \E k \in 1..Len(dp_tasks) :
          /\ dp_tasks[k].state = "pending"
          /\ \A j \in 1..(k - 1) : dp_tasks[j].state # "pending"
          /\ Cardinality({j \in 1..Len(dp_tasks) :
                              dp_tasks[j].state = "running"}) < MAX_WORKERS
          /\ dp_tasks' = [dp_tasks EXCEPT
                ![k].state = "running",
                ![k].basis = DpCapitalBasis(dp_current_equity,
                                            dp_in.initial_capital)]
    /\ UNCHANGED <<dp_pc, dp_in, dp_trading_days, dp_day_idx,
                   dp_current_equity, dp_all_trades, dp_daily_trades,
                   dp_equity_curve, dp_events, dp_cur, dp_trade_idx>>

\* _simulate_symbol_intraday returns its trade list; the future is done
DpWorkerFinish ==
    /\ UNCHANGED dpOthers
    /\ \E k \in 1..Len(dp_tasks) :
          /\ dp_tasks[k].state = "running"
          /\ \E r \in SimResults(dp_tasks[k].symbol, dp_tasks[k].date) :
                dp_tasks' = [dp_tasks EXCEPT ![k].state = "done",
                                             ![k].result = r]
    /\ UNCHANGED <<dp_pc, dp_in, dp_trading_days, dp_day_idx,
                   dp_current_equity, dp_all_trades, dp_daily_trades,
                   dp_equity_curve, dp_events, dp_cur, dp_trade_idx>>

DpTradeEvent(trade) ==
    [event_type |-> "trade", date |-> DpDate, trade |-> trade,
     symbol |-> trade.symbol]

\* lines 309-316: as_completed hands over a finished future; its first
\* trade is recorded and yielded
DpTakeFuture ==
    /\ dp_pc = "collect"
    /\ UNCHANGED dpOthers
    /\ \E k \in DpTasksOf(dp_tasks, DpDate) :
          /\ dp_tasks[k].state = "done"
          /\ ~dp_tasks[k].consumed
          /\ IF Len(dp_tasks[k].result) = 0
             THEN /\ dp_tasks' = [dp_tasks EXCEPT ![k].consumed = TRUE]
                  /\ UNCHANGED <<dp_pc, dp_daily_trades, dp_all_trades,
                                 dp_events, dp_cur, dp_trade_idx>>
             ELSE /\ dp_daily_trades' = Append(dp_daily_trades,
                                               dp_tasks[k].result[1])
                  /\ dp_all_trades' = Append(dp_all_trades,
                                             dp_tasks[k].result[1])
                  /\ dp_events' = Append(dp_events,
                                         DpTradeEvent(dp_tasks[k].result[1]))
                  /\ dp_cur' = k
                  /\ dp_trade_idx' = 1
                  /\ dp_pc' = "trade_yield"
                  /\ UNCHANGED dp_tasks
    /\ UNCHANGED <<dp_in, dp_trading_days, dp_day_idx, dp_current_equity,
                   dp_equity_curve>>

\* lines 313-316: resumed after a trade event: the future's next trade, or
\* back to as_completed
DpAfterTrade ==
    /\ dp_pc = "trade_yield"
    /\ UNCHANGED dpOthers
    /\ IF dp_trade_idx < Len(dp_tasks[dp_cur].result)
       THEN LET trade == dp_tasks[dp_cur].result[dp_trade_idx + 1]
            IN  /\ dp_daily_trades' = Append(dp_daily_trades, trade)
                /\ dp_all_trades' = Append(dp_all_trades, trade)
                /\ dp_events' = Append(dp_events, DpTradeEvent(trade))
                /\ dp_trade_idx' = dp_trade_idx + 1
                /\ UNCHANGED <<dp_pc, dp_tasks, dp_cur>>
       ELSE /\ dp_tasks' = [dp_tasks EXCEPT ![dp_cur].consumed = TRUE]
            /\ dp_pc' = "collect"
            /\ dp_cur' = 0
            /\ dp_trade_idx' = 0
            /\ UNCHANGED <<dp_daily_trades, dp_all_trades, dp_events>>
    /\ UNCHANGED <<dp_in, dp_trading_days, dp_day_idx, dp_current_equity,
                   dp_equity_curve>>

\* lines 306-318: the as_completed loop ends when every future of the day
\* has been handed over, and leaving the with block waits for the pool
DpDayJoinedNoWait(tasks, date) == TRUE

DpDayJoined(tasks, date) ==
    \A k \in DpTasksOf(tasks, date) :
        tasks[k].state = "done" /\ tasks[k].consumed

\* lines 321-323: current_equity += sum of the pnl of the day's trades (the
\* pnl of a trade is net of its fees)
DpEquityAfterDayLessFees(current_equity, daily_trades) ==
    current_equity + SumPnl(daily_trades) - SumFees(daily_trades)

DpEquityAfterDay(current_equity, daily_trades) ==
    current_equity + SumPnl(daily_trades)

\* lines 320-336: the day's P&L is compounded into current_equity
DpDayComplete ==
    /\ dp_pc = "collect"
    /\ UNCHANGED dpOthers
    /\ DpDayJoined(dp_tasks, DpDate)
    /\ LET daily_pnl  == SumPnl(dp_daily_trades)
           daily_fees == SumFees(dp_daily_trades)
           equity == DpEquityAfterDay(dp_current_equity, dp_daily_trades)
       IN  /\ dp_current_equity' = equity
           /\ dp_equity_curve' = Append(dp_equity_curve,
                 [date |-> DpDate, equity |-> equity,
                  daily_pnl |-> daily_pnl, daily_fees |-> daily_fees])
           /\ dp_events' = Append(dp_events,
                 [event_type |-> "day_complete", date |-> DpDate,
                  daily_pnl |-> daily_pnl, daily_fees |-> daily_fees,
                  trades_count |-> Len(dp_daily_trades),
                  current_equity |-> equity])
    /\ dp_pc' = "day_complete_yield"
    /\ UNCHANGED <<dp_in, dp_trading_days, dp_day_idx, dp_all_trades,
                   dp_daily_trades, dp_tasks, dp_cur, dp_trade_idx>>

\* resumed after day_complete: next day, or leave the day loop
DpAfterDayComplete ==
    /\ dp_pc = "day_complete_yield"
    /\ UNCHANGED dpOthers
    /\ dp_day_idx' = dp_day_idx + 1
    /\ dp_pc' = DpNextDayPc(dp_day_idx, dp_trading_days)
    /\ UNCHANGED <<dp_in, dp_trading_days, dp_current_equity, dp_all_trades,
                   dp_daily_trades, dp_equity_curve, dp_events, dp_tasks,
                   dp_cur, dp_trade_idx>>

\* lines 338-352: final metrics and the complete event
DpFinish ==
    /\ dp_pc = "finish"
    /\ UNCHANGED dpOthers
    /\ IF ComputeMetricsRaises(dp_equity_curve)
       THEN /\ dp_pc' = "raised"
            /\ UNCHANGED dp_events
       ELSE /\ dp_events' = Append(dp_events,
                  [event_type |-> "complete",
                   metrics |-> <<Len(dp_all_trades), SumPnl(dp_all_trades)>>,
                   trades |-> dp_all_trades,
                   equity_curve |-> dp_equity_curve])
            /\ dp_pc' = "complete_yield"
    /\ UNCHANGED <<dp_in, dp_trading_days, dp_day_idx, dp_current_equity,
                   dp_all_trades, dp_daily_trades, dp_equity_curve, dp_tasks,
                   dp_cur, dp_trade_idx>>

\* resumed after a terminal event: the generator returns
DpReturn ==
    /\ dp_pc \in {"error_yield", "complete_yield"}
    /\ UNCHANGED dpOthers
    /\ dp_pc' = "done"
    /\ UNCHANGED <<dp_in, dp_trading_days, dp_day_idx, dp_current_equity,
                   dp_all_trades, dp_daily_trades, dp_equity_curve, dp_events,
                   dp_tasks, dp_cur, dp_trade_idx>>

----------------------------------------------------------------------------
(* get_candles (backtest_cache.py): the day-granular candle cache.  A date *)
(* is a day number, a candle's calendar day is its time divided by the     *)
(* seconds of a day.  The persisted store and a call's cached_by_date map  *)
(* a date to an Optional day bucket (None: no row / no key).               *)

SecondsPerDay == 86400

DEFAULT_MAX_DAYS == 30

CacheLastDate == 32

CacheDates == 1..CacheLastDate

CacheCalls == {1, 2}

\* lines 21-46 and 136-138
_interval_max_days(interval) ==
    IF interval \in {"1minute", "2minute", "3minute", "5minute"} THEN 30
    ELSE IF interval \in {"10minute", "15minute", "30minute"} THEN 90
    ELSE IF interval \in {"1hour", "4hours", "1day", "1week", "1month"}
    THEN 180
    ELSE DEFAULT_MAX_DAYS

\* a candle as the data source delivers it, for slot k of date d
SourceCandle(d, k, price) ==
    [time |-> d * SecondsPerDay + k * BarSeconds, open |-> price,
     close |-> price]

\* the dates on which the source may hold candles (all others: holidays)
CacheActiveDates == {1, 2, CacheLastDate - 1}

\* groww.get_historical_candles for [chunk_start 09:15, chunk_end 15:30]:
\* the source's candles of the days chunk_start..chunk_end
RECURSIVE SourceResponse(_, _, _)
SourceResponse(source, chunk_start, chunk_end) ==
    IF chunk_start > chunk_end THEN <<>>
    ELSE source[chunk_start]
            \o SourceResponse(source, chunk_start + 1, chunk_end)

\* lines 125-133: rows without a positive open and close are dropped
_parse_candles_response(raw) ==
    SelectSeq(raw, LAMBDA c : c.open > 0 /\ c.close > 0)

\* lines 256-257
DateKey(c) == c.time \div SecondsPerDay

\* list.sort(key=time): stable, ascending
RECURSIVE InsertByTime(_, _)
InsertByTime(sorted, c) ==
    IF Len(sorted) = 0 THEN <<c>>
    ELSE IF sorted[1].time <= c.time
         THEN <<sorted[1]>> \o InsertByTime(Tail(sorted), c)
         ELSE <<c>> \o sorted

RECURSIVE SortByTime(_)
SortByTime(cs) ==
    IF Len(cs) = 0 THEN <<>>
    ELSE InsertByTime(SortByTime(SubSeq(cs, 1, Len(cs) - 1)), cs[Len(cs)])

\* lines 290-297: the first candle of every timestamp is kept
RECURSIVE DedupeFrom(_, _)
DedupeFrom(cs, seen) ==
    IF Len(cs) = 0 THEN <<>>
    ELSE IF cs[1].time \in seen
         THEN DedupeFrom(Tail(cs), seen)
         ELSE <<cs[1]>> \o DedupeFrom(Tail(cs), seen \cup {cs[1].time})

DedupeByTimeKeepAll(cs) == cs

DedupeByTime(cs) == DedupeFrom(cs, {})

\* lines 286-288: the buckets of the requested dates, in date order
RECURSIVE ExtendAll(_, _, _)
ExtendAll(cached_by_date, d, end) ==
    IF d > end THEN <<>>
    ELSE (IF IsNone(cached_by_date[d]) THEN <<>> ELSE cached_by_date[d][1])
            \o ExtendAll(cached_by_date, d + 1, end)

\* lines 285-298
MergeResult(cached_by_date, start, end) ==
    DedupeByTime(SortByTime(ExtendAll(cached_by_date, start, end)))

\* line 193: the requested dates without a cached bucket, ascending
RECURSIVE MissingDates(_, _, _)
MissingDates(cached_by_date, d, end) ==
    IF d > end THEN <<>>
    ELSE (IF IsNone(cached_by_date[d]) THEN <<d>> ELSE <<>>)
            \o MissingDates(cached_by_date, d + 1, end)

\* lines 200-210: the chunk that starts at missing_dt[i] (i counts from 0)
\* ends at the last missing date within max_days of its start
ChunkEnd(missing_dt, i, max_days) ==
    LET chunk_start   == missing_dt[i + 1]
        max_chunk_end == Min2(chunk_start + (max_days - 1), Last(missing_dt))
        within == {missing_dt[j] : j \in
                      {k \in (i + 1)..Len(missing_dt) :
                           \A m \in (i + 1)..k :
                               missing_dt[m] <= max_chunk_end}}
    IN  CHOOSE e \in within : \A f \in within : f <= e

\* lines 282-283
RECURSIVE AdvancePast(_, _, _)
AdvancePast(missing_dt, i, chunk_end) ==
    IF i < Len(missing_dt) /\ missing_dt[i + 1] <= chunk_end
    THEN AdvancePast(missing_dt, i + 1, chunk_end)
    ELSE i

\* lines 254-258 and 263: the fetched candles of one calendar day, sorted
DayBucket(candles, date_key) ==
    SortByTime(SelectSeq(candles, LAMBDA c : DateKey(c) = date_key))

DateKeys(candles) == {DateKey(candles[k]) : k \in 1..Len(candles)}

\* lines 265-277: INSERT OR REPLACE puts the whole day bucket in the row
CacheUpsertAppending(row, day_candles) ==
    IF IsNone(row) THEN Some(day_candles) ELSE Some(row[1] \o day_candles)

CacheUpsert(row, day_candles) == Some(day_candles)

\* the date ranges asked for: two days, an inverted range, and two ranges
\* longer than one request may span
CacheRanges ==
    { <<1, 2>>, <<2, 1>>, <<1, CacheLastDate>>, <<2, CacheLastDate>> }

NoBuckets == [d \in CacheDates |-> None]

\* a get_candles call that has not started yet
CacheFresh(range) ==
    [pc |-> "start", start_date |-> range[1], end_date |-> range[2],
     interval |-> "5minute", cached_by_date |-> NoBuckets,
     missing_dt |-> <<>>, i |-> 0, candles |-> <<>>, chunk_end |-> 0,
     fetches |-> 0, fetch_failed |-> FALSE, result |-> None,
     store0 |-> NoBuckets, wrote |-> NoBuckets, seq |-> 0,
     overlapped |-> FALSE]

\* what the source holds for one date: nothing; two bars in order; or bars
\* out of order with a repeated timestamp and a bar without a price
SourceOf(kinds) ==
    [d \in CacheDates |->
        IF d \notin CacheActiveDates \/ kinds[d] = "none" THEN <<>>
        ELSE IF kinds[d] = "ordered"
        THEN <<SourceCandle(d, 1, 100), SourceCandle(d, 2, 101)>>
        ELSE <<SourceCandle(d, 2, 101), SourceCandle(d, 1, 100),
               SourceCandle(d, 1, 102), SourceCandle(d, 3, 0)>>]

SourceContents ==
    {SourceOf(kinds) :
        kinds \in [CacheActiveDates -> {"none", "ordered", "messy"}]}

CacheIdle ==
    /\ cache_call = [c \in CacheCalls |-> [CacheFresh(<<0, 0>>)
                                             EXCEPT !.pc = "idle"]]
    /\ cache_store = NoBuckets
    /\ cache_source = [c \in CacheCalls |-> [d \in CacheDates |-> <<>>]]
    /\ cache_clock = 0

\* an empty store, two calls for the same (symbol, segment, interval), and
\* what the source answers to each of them: the same content, or a content
\* revised on the first date between the two calls' requests
CacheInit ==
    /\ cache_call \in [CacheCalls -> {CacheFresh(r) : r \in CacheRanges}]
    /\ cache_store = NoBuckets
    /\ cache_source \in [CacheCalls -> SourceContents]
    /\ \A d \in CacheDates :
          d # 1 => cache_source[1][d] = cache_source[2][d]
    /\ cache_clock = 0

CacheActive(call) == call.pc \in {"chunk", "store", "merge"}

\* lines 154-195: range check, the cached buckets (one SELECT), the missing
\* dates
CacheLoad ==
    /\ UNCHANGED cacheOthers
    /\ \E c \in CacheCalls :
        LET me == cache_call[c]
            overlap == \E o \in CacheCalls \ {c} : CacheActive(cache_call[o])
            cached == [d \in CacheDates |->
                          IF me.start_date <= d /\ d <= me.end_date
                          THEN cache_store[d] ELSE None]
            missing == MissingDates(cached, me.start_date, me.end_date)
        IN  /\ me.pc = "start"
            /\ cache_clock' = cache_clock + 1
            /\ IF me.start_date > me.end_date
               THEN cache_call' = [cache_call EXCEPT
                       ![c].pc = "returned",
                       ![c].result = Some(<<>>),
                       ![c].seq = cache_clock + 1]
               ELSE cache_call' = [o \in CacheCalls |->
                       IF o = c
                       THEN [me EXCEPT
                               !.pc = IF Len(missing) > 0 THEN "chunk"
                                      ELSE "merge",
                               !.cached_by_date = cached,
                               !.missing_dt = missing,
                               !.store0 = cache_store,
                               !.seq = cache_clock + 1,
                               !.overlapped = overlap]
                       ELSE [cache_call[o] EXCEPT
                               !.overlapped = @ \/ CacheActive(cache_call[o])]]
    /\ UNCHANGED <<cache_store, cache_source>>

\* lines 246-251: an exception of the source is logged and re-raised
FetchFailedSwallowed(call) ==
    [call EXCEPT !.pc = "merge", !.fetches = @ + 1, !.fetch_failed = TRUE]

FetchFailed(call) ==
    [call EXCEPT !.pc = "raised", !.fetches = @ + 1, !.fetch_failed = TRUE]

\* lines 199-251: the request for the next chunk of missing dates
CacheFetch ==
    /\ UNCHANGED cacheOthers
    /\ \E c \in CacheCalls, fetch_raises \in BOOLEAN :
        LET me == cache_call[c]
            chunk_start == me.missing_dt[me.i + 1]
            chunk_end == ChunkEnd(me.missing_dt, me.i,
                                  _interval_max_days(me.interval))
        IN  /\ me.pc = "chunk"
            /\ IF fetch_raises
               THEN cache_call' = [cache_call EXCEPT ![c] = FetchFailed(me)]
               ELSE cache_call' = [cache_call EXCEPT
                       ![c].pc = "store",
                       ![c].fetches = @ + 1,
                       ![c].chunk_end = chunk_end,
                       ![c].candles = _parse_candles_response(
                           SourceResponse(cache_source[c], chunk_start,
                                          chunk_end))]
    /\ UNCHANGED <<cache_store, cache_source, cache_clock>>

\* lines 253-283: the chunk's candles split by calendar day, every day
\* bucket put into cached_by_date and the store, one commit for the chunk
CacheStoreChunk ==
    /\ UNCHANGED cacheOthers
    /\ \E c \in CacheCalls :
        LET me == cache_call[c]
            by_date == DateKeys(me.candles)
            next_i == AdvancePast(me.missing_dt, me.i, me.chunk_end)
        IN  /\ me.pc = "store"
            /\ cache_store' = [d \in CacheDates |->
                    IF d \in by_date
                    THEN CacheUpsert(cache_store[d], DayBucket(me.candles, d))
                    ELSE cache_store[d]]
            /\ cache_call' = [cache_call EXCEPT
                    ![c].cached_by_date = [d \in CacheDates |->
                        IF d \in by_date
                        THEN Some(DayBucket(me.candles, d))
                        ELSE me.cached_by_date[d]],
                    ![c].wrote = [d \in CacheDates |->
                        IF d \in by_date
                        THEN Some(DayBucket(me.candles, d))
                        ELSE me.wrote[d]],
                    ![c].i = next_i,
                    ![c].candles = <<>>,
                    ![c].pc = IF next_i < Len(me.missing_dt) THEN "chunk"
                              ELSE "merge"]
    /\ UNCHANGED <<cache_source, cache_clock>>

\* lines 285-298: merge, sort, dedupe, return
CacheMerge ==
    /\ UNCHANGED cacheOthers
    /\ \E c \in CacheCalls :
        LET me == cache_call[c]
        IN  /\ me.pc = "merge"
            /\ cache_call' = [cache_call EXCEPT
                    ![c].pc = "returned",
                    ![c].result = Some(MergeResult(me.cached_by_date,
                                           me.start_date, me.end_date))]
    /\ UNCHANGED <<cache_store, cache_source, cache_clock>>

----------------------------------------------------------------------------
(* _compute_metrics (backtest_engine.py lines 32-154).  Money is whole     *)
(* paise.  A value that the code rounds with round(x, d) is kept as the    *)
(* integer x * 10^d rounded to nearest, ties to even: percentages in       *)
(* hundredths of a percent, profit_factor in 1e-4, durations in tenths of  *)
(* a second.  sharpe_ratio and sortino_ratio need a square root and are    *)
(* kept as their sign (-1, 0, 1).                                          *)

MaxMetricLen == 5

MetricCapitals == {0, 1000}

MetricPnls == {-200, 0, 300}

\* round(n / d * 10^k) for the integer n already scaled by 10^k, d > 0
RoundDiv(n, d) ==
    LET q == n \div d
        r == n % d
    IN  IF 2 * r > d THEN q + 1
        ELSE IF 2 * r < d THEN q
        ELSE IF q % 2 = 0 THEN q ELSE q + 1

Sign(x) == IF x > 0 THEN 1 ELSE IF x < 0 THEN -1 ELSE 0

RECURSIVE SumDurations(_)
SumDurations(ts) ==
    IF Len(ts) = 0 THEN 0
    ELSE (ts[1].exit_time - ts[1].entry_time) + SumDurations(Tail(ts))

\* line 53: wins = sum(1 for t in trades if t["pnl"] > 0)
MetricWinsNonNegative(trades) ==
    Cardinality({k \in 1..Len(trades) : trades[k].pnl >= 0})

MetricWins(trades) ==
    Cardinality({k \in 1..Len(trades) : trades[k].pnl > 0})

\* line 54: losses = sum(1 for t in trades if t["pnl"] <= 0)
MetricLosses(trades) ==
    Cardinality({k \in 1..Len(trades) : trades[k].pnl <= 0})

\* lines 80-82; None stands for the infinite factor the code reports as None
profit_factorZeroWithoutLoss(gross_profit, gross_loss) ==
    IF gross_loss < 0
    THEN Some(RoundDiv(gross_profit * 10000, Abs(gross_loss)))
    ELSE Some(0)

profit_factor(gross_profit, gross_loss) ==
    IF gross_loss < 0
    THEN Some(RoundDiv(gross_profit * 10000, Abs(gross_loss)))
    ELSE IF gross_profit > 0 THEN None ELSE Some(0)

\* lines 91-92: the peak after a point of equity eq
RunningPeakLatest(peak, eq) == eq

RunningPeak(peak, eq) == IF eq > peak THEN eq ELSE peak

\* lines 86-99, the loop over the curve from point k on
RECURSIVE DrawdownScan(_, _, _, _, _)
DrawdownScan(equity_curve, k, peak, max_drawdown, max_drawdown_pct) ==
    IF k > Len(equity_curve)
    THEN [max_drawdown |-> max_drawdown, max_drawdown_pct |-> max_drawdown_pct]
    ELSE LET eq     == equity_curve[k].equity
             peak1  == RunningPeak(peak, eq)
             dd     == peak1 - eq
             dd_pct == IF peak1 > 0 THEN RoundDiv(dd * 10000, peak1) ELSE 0
         IN  DrawdownScan(equity_curve, k + 1, peak1,
                          Max2(max_drawdown, dd),
                          Max2(max_drawdown_pct, dd_pct))

\* lines 102-106: the last equity of each UTC day
DayKey(time) == time \div SecondsPerDay

DailyEquity(equity_curve) ==
    LET days == {DayKey(equity_curve[k].time) : k \in 1..Len(equity_curve)}
    IN  [d \in days |->
            LET ks == {k \in 1..Len(equity_curve) :
                           DayKey(equity_curve[k].time) = d}
                k  == CHOOSE k \in ks : \A j \in ks : j <= k
            IN  equity_curve[k].equity]

\* lines 107-113: the returns between consecutive days, each kept as the
\* fraction num / den
DailyReturns(daily_equity) ==
    LET days == DOMAIN daily_equity
        prev(d) == CHOOSE p \in days : p < d /\ \A o \in days : o < d => o <= p
    IN  {[day |-> d, num |-> daily_equity[d] - daily_equity[prev(d)],
          den |-> daily_equity[prev(d)]] :
            d \in {x \in days : /\ \E p \in days : p < x
                                /\ daily_equity[prev(x)] > 0}}

RECURSIVE SumFractions(_)
SumFractions(rs) ==
    IF rs = {} THEN [num |-> 0, den |-> 1]
    ELSE LET r    == CHOOSE x \in rs : TRUE
             rest == SumFractions(rs \ {r})
         IN  [num |-> r.num * rest.den + rest.num * r.den,
              den |-> r.den * rest.den]

\* lines 114-131: sign of the ratios; std_ret is 0 exactly when all daily
\* returns are equal, downside_std is 0 exactly when none is negative
RiskRatios(daily_returns) ==
    LET mean_ret == SumFractions(daily_returns).num
        std_pos  == \E a, b \in daily_returns : a.num * b.den # b.num * a.den
        downside == \E a \in daily_returns : a.num < 0
    IN  IF daily_returns = {}
        THEN [sharpe_ratio |-> 0, sortino_ratio |-> 0]
        ELSE [sharpe_ratio  |-> IF std_pos THEN Sign(mean_ret) ELSE 0,
              sortino_ratio |-> IF downside THEN Sign(mean_ret) ELSE 0]

\* every division of the function with the condition under which the code
\* reaches it: true when one of them is reached with a zero divisor
MetricsDividesByZero(initial_capital, trades, equity_curve) ==
    LET win_trades  == SelectSeq(trades, LAMBDA t : t.pnl > 0)
        loss_trades == SelectSeq(trades, LAMBDA t : t.pnl < 0)
        \* lines 59, 60, 69: "x / len(s) if s else 0.0"
        averages == \/ Len(win_trades) # 0 /\ Len(win_trades) = 0
                    \/ Len(loss_trades) # 0 /\ Len(loss_trades) = 0
                    \/ Len(trades) # 0 /\ Len(trades) = 0
        \* lines 74-78
        return_pct == initial_capital > 0 /\ initial_capital = 0
        \* lines 79, 83
        rates == Len(trades) # 0 /\ Len(trades) = 0
        \* lines 80-82
        factor == SumPnl(loss_trades) < 0 /\ Abs(SumPnl(loss_trades)) = 0
        \* lines 96-97: peak is positive where the code divides by it
        \* lines 112-113: prev_eq is positive where the code divides by it
        \* lines 118-130: a non-empty list, std_ret > 0, downside_std > 0
    IN  averages \/ return_pct \/ rates \/ factor

_compute_metrics(initial_capital, trades, equity_curve) ==
    LET n            == Len(trades)
        total_pnl    == SumPnl(trades)
        total_fees   == SumFees(trades)
        wins         == MetricWins(trades)
        losses       == MetricLosses(trades)
        win_trades   == SelectSeq(trades, LAMBDA t : t.pnl > 0)
        loss_trades  == SelectSeq(trades, LAMBDA t : t.pnl < 0)
        gross_profit == SumPnl(win_trades)
        gross_loss   == SumPnl(loss_trades)
        avg_win      == IF Len(win_trades) # 0
                        THEN RoundDiv(gross_profit, Len(win_trades)) ELSE 0
        avg_loss     == IF Len(loss_trades) # 0
                        THEN RoundDiv(gross_loss, Len(loss_trades)) ELSE 0
        best_trade   == IF n = 0 THEN 0
                        ELSE CHOOSE p \in {trades[k].pnl : k \in 1..n} :
                                 \A k \in 1..n : trades[k].pnl <= p
        worst_trade  == IF n = 0 THEN 0
                        ELSE CHOOSE p \in {trades[k].pnl : k \in 1..n} :
                                 \A k \in 1..n : trades[k].pnl >= p
        avg_duration_sec == IF n # 0
                            THEN RoundDiv(SumDurations(trades) * 10, n) ELSE 0
        final_equity == IF Len(equity_curve) # 0
                        THEN Last(equity_curve).equity
                        ELSE IF n # 0 THEN initial_capital + total_pnl
                        ELSE initial_capital
        total_return_pct ==
            IF initial_capital > 0
            THEN RoundDiv((final_equity - initial_capital) * 10000,
                          initial_capital)
            ELSE 0
        win_rate     == IF n # 0 THEN RoundDiv(wins * 10000, n) ELSE 0
        \* avg_win * (wins / n) + avg_loss * (losses / n) as one fraction
        expectancy   ==
            IF n = 0 THEN 0
            ELSE IF Len(loss_trades) = 0 THEN RoundDiv(gross_profit, n)
            ELSE RoundDiv(gross_profit * Len(loss_trades)
                              + gross_loss * losses,
                          n * Len(loss_trades))
        drawdown     == DrawdownScan(equity_curve, 1, initial_capital, 0, 0)
        ratios       == RiskRatios(DailyReturns(DailyEquity(equity_curve)))
    IN  IF MetricsDividesByZero(initial_capital, trades, equity_curve)
        THEN [kind |-> "raise", exception |-> "ZeroDivisionError"]
        ELSE IF ComputeMetricsRaises(equity_curve)
        THEN [kind |-> "raise", exception |-> "KeyError"]
        ELSE [kind |-> "return",
              value |->
                [initial_capital  |-> initial_capital,
                 final_equity     |-> final_equity,
                 total_return_pct |-> total_return_pct,
                 total_fees       |-> total_fees,
                 net_pnl          |-> total_pnl,
                 trade_count      |-> n,
                 wins             |-> wins,
                 losses           |-> losses,
                 win_rate_pct     |-> win_rate,
                 profit_factor    |-> profit_factor(gross_profit, gross_loss),
                 expectancy       |-> expectancy,
                 max_drawdown     |-> drawdown.max_drawdown,
                 max_drawdown_pct |-> drawdown.max_drawdown_pct,
                 sharpe_ratio     |-> ratios.sharpe_ratio,
                 sortino_ratio    |-> ratios.sortino_ratio,
                 avg_win          |-> avg_win,
                 avg_loss         |-> avg_loss,
                 best_trade       |-> best_trade,
                 worst_trade      |-> worst_trade,
                 avg_duration_seconds |-> avg_duration_sec]]

\* a closed trade as the engines record it, the k-th of a list
MetricTrade(k, pnl) ==
    [pnl |-> pnl, fees |-> 1, entry_time |-> k * BarSeconds,
     exit_time |-> (k + 1) * BarSeconds]

\* the number of trades closed on the bars 1..k of a run
ClosedBy(closes, k) == Cardinality({j \in 1..k : closes[j]})

\* what run_backtest passes at line 325 after a run over the bars
\* DOMAIN closes, two bars per day, on which the trades of pnl pnls[1],
\* pnls[2], ... were closed one after the other on the bars marked in
\* closes: the trades, and the curve with one point {time, equity} per bar
\* (line 267), the equity being the initial capital plus the pnl closed so
\* far (line 264)
MetricRun(initial_capital, closes, pnls) ==
    [initial_capital |-> initial_capital,
     trades          |-> [k \in 1..Len(pnls) |-> MetricTrade(k, pnls[k])],
     equity_curve    |->
        [k \in 1..Len(closes) |->
            [time   |-> (k * SecondsPerDay) \div 2,
             equity |-> initial_capital
                          + SumPnl(SubSeq([j \in 1..Len(pnls) |->
                                              [pnl |-> pnls[j]]],
                                          1, ClosedBy(closes, k)))]]]

\* no trade is closed on the first bar: a position is opened on one bar and
\* closed on a later one
MetricCloses(m) == {f \in [1..m -> BOOLEAN] : m > 0 => ~f[1]}

MetInputs ==
    UNION {UNION {{MetricRun(c, closes, pnls) :
                      c \in MetricCapitals,
                      pnls \in [1..ClosedBy(closes, m) -> MetricPnls]} :
                  closes \in MetricCloses(m)} :
           m \in 0..MaxMetricLen}

MetIdle ==
    /\ met_pc = "idle"
    /\ met_in = [initial_capital |-> 0, trades |-> <<>>, equity_curve |-> <<>>]
    /\ met_out = [kind |-> "none"]

MetInit ==
    /\ met_pc = "start"
    /\ met_in \in MetInputs
    /\ met_out = [kind |-> "none"]

ComputeMetrics ==
    /\ met_pc = "start"
    /\ met_pc' = "done"
    /\ met_out' = _compute_metrics(met_in.initial_capital, met_in.trades,
                                   met_in.equity_curve)
    /\ UNCHANGED <<met_in, metOthers>>

----------------------------------------------------------------------------
(* The fee calculator of position_monitor.py (lines 23-69), which          *)
(* run_backtest and the live monitor call, next to the one of              *)
(* utils/fees.py, which the daily-picks engine calls.                      *)

\* position_monitor.calculate_fees(price, qty, side, trade_type)["total"]
position_monitor_calculate_feesNoStampDuty(price, qty, side, trade_type) ==
    LET turnover     == price * qty
        brokerage    == IF turnover * 3 <= 200000
                        THEN turnover * BROKERAGE_RATE
                        ELSE BROKERAGE_PER_ORDER
        stt          == IF trade_type = "INTRADAY"
                        THEN (IF side = "SELL"
                              THEN turnover * STT_INTRADAY_SELL_RATE ELSE 0)
                        ELSE turnover * STT_DELIVERY_RATE
        exchange_txn == turnover * EXCHANGE_TXN_RATE
        sebi         == turnover * SEBI_RATE
        gst          == ((brokerage \div 100) * GST_PERCENT)
                        + (((exchange_txn + sebi) \div 100) * GST_PERCENT)
        paise        == (brokerage \div UnitsPerPaise) + (stt \div UnitsPerPaise)
                        + (exchange_txn \div UnitsPerPaise)
                        + (sebi \div UnitsPerPaise)
                        + (gst \div UnitsPerPaise)
        rem          == (brokerage % UnitsPerPaise) + (stt % UnitsPerPaise)
                        + (exchange_txn % UnitsPerPaise)
                        + (sebi % UnitsPerPaise)
                        + (gst % UnitsPerPaise)
    IN  RoundToPaise(paise, rem)

\* the fee of the price alone, the quantity forgotten
position_monitor_calculate_feesPriceOnly(price, qty, side, trade_type) ==
    calculate_fees(price, 1, side, trade_type)

position_monitor_calculate_fees(price, qty, side, trade_type) ==
    LET turnover     == price * qty
        brokerage    == IF turnover * 3 <= 200000
                        THEN turnover * BROKERAGE_RATE
                        ELSE BROKERAGE_PER_ORDER
        stt          == IF trade_type = "INTRADAY"
                        THEN (IF side = "SELL"
                              THEN turnover * STT_INTRADAY_SELL_RATE ELSE 0)
                        ELSE turnover * STT_DELIVERY_RATE
        exchange_txn == turnover * EXCHANGE_TXN_RATE
        sebi         == turnover * SEBI_RATE
        stamp_duty   == IF side = "BUY" THEN turnover * STAMP_DUTY_RATE ELSE 0
        gst          == ((brokerage \div 100) * GST_PERCENT)
                        + (((exchange_txn + sebi) \div 100) * GST_PERCENT)
        paise        == (brokerage \div UnitsPerPaise) + (stt \div UnitsPerPaise)
                        + (exchange_txn \div UnitsPerPaise)
                        + (sebi \div UnitsPerPaise)
                        + (stamp_duty \div UnitsPerPaise)
                        + (gst \div UnitsPerPaise)
        rem          == (brokerage % UnitsPerPaise) + (stt % UnitsPerPaise)
                        + (exchange_txn % UnitsPerPaise)
                        + (sebi % UnitsPerPaise)
                        + (stamp_duty % UnitsPerPaise)
                        + (gst % UnitsPerPaise)
    IN  RoundToPaise(paise, rem)

\* position_monitor.compute_exit_pnl(entry, exit, quantity, trade_type)
position_monitor_compute_exit_pnl(entry_price, exit_price, quantity, trade_type) ==
    LET gross      == (exit_price - entry_price) * quantity * 100
        fees_entry == position_monitor_calculate_fees(entry_price, quantity,
                                                      "BUY", trade_type)
        fees_exit  == position_monitor_calculate_fees(exit_price, quantity,
                                                      "SELL", trade_type)
        total_fees == fees_entry + fees_exit
        net        == gross - total_fees
    IN  [net_pnl |-> net, total_fees |-> total_fees]

\* prices in rupees and quantities of the two orders compared: turnovers
\* from 1 to 10000 rupees, on which the brokerage is 0.03% of the turnover
FeePrices == {1, 2, 7, 100}

FeeQuantities == {1, 2, 3, 50, 100}

FeeOrders == [price : FeePrices, qty : FeeQuantities]

FeeInputs ==
    [a : FeeOrders, b : FeeOrders, side : {"BUY", "SELL"},
     trade_type : {"INTRADAY", "DELIVERY"}]

FeeIdle ==
    /\ fee_pc = "idle"
    /\ fee_in = [a |-> [price |-> 0, qty |-> 0], b |-> [price |-> 0, qty |-> 0],
                 side |-> "BUY", trade_type |-> "INTRADAY"]
    /\ fee_out = <<>>

FeeInit ==
    /\ fee_pc = "start"
    /\ fee_in \in FeeInputs
    /\ fee_out = <<>>

\* what one round of calls returns: calculate_fees of both modules on the
\* two orders, and compute_exit_pnl of both modules on the round trip that
\* enters at a's price and leaves at b's price with a's quantity
FeeResults(in) ==
    [utils_a  |-> calculate_fees(in.a.price, in.a.qty, in.side, in.trade_type),
     utils_b  |-> calculate_fees(in.b.price, in.b.qty, in.side, in.trade_type),
     monitor_a |-> position_monitor_calculate_fees(in.a.price, in.a.qty,
                                                   in.side, in.trade_type),
     monitor_b |-> position_monitor_calculate_fees(in.b.price, in.b.qty,
                                                   in.side, in.trade_type),
     utils_exit   |-> compute_exit_pnl(in.a.price, in.b.price, in.a.qty,
                                       in.trade_type),
     monitor_exit |-> position_monitor_compute_exit_pnl(
                          in.a.price, in.b.price, in.a.qty, in.trade_type)]

\* the functions are called on the same arguments a first and a second time
FeeCall ==
    /\ fee_pc \in {"start", "called"}
    /\ fee_pc' = IF fee_pc = "start" THEN "called" ELSE "called again"
    /\ fee_out' = Append(fee_out, FeeResults(fee_in))
    /\ UNCHANGED <<fee_in, feeOthers>>

----------------------------------------------------------------------------
(* Live trading: the trade ledger (trades_db.py), the PositionMonitor      *)
(* thread (position_monitor.py) and the AlgoEngine thread                  *)
(* (algo_engine.py).  Both threads read the ledger with list_trades and    *)
(* write it with update_trade; a thread works on the rows as it read them. *)
(* Prices are whole rupees, an LTP of 0 stands for a symbol that is        *)
(* missing from the fetched ltp_map.                                       *)

MaxTrades == 2

MaxFailures == 4

_base_interval == 5

_max_interval == 60

LiveSymbols == {"S1", "S2"}

\* self._algos in registration order
LiveAlgos == <<"A1", "A2">>

\* algo_engine.py lines 37-52 and 356-357: the two position caps
LiveConfigs ==
    [max_positions_per_algo : {1, 2}, max_total_positions : {2}]

\* trades_db.py lines 129-169: the row create_trade inserts; closes counts
\* the updates that moved the row to WON or LOST
LiveRow(id, symbol, is_paper, algo_id, order_status) ==
    [id |-> id, symbol |-> symbol, is_paper |-> is_paper,
     algo_id |-> algo_id, trade_type |-> "INTRADAY", entry_price |-> 100,
     stop_loss |-> 95, target |-> 105, quantity |-> 10, status |-> "OPEN",
     order_status |-> order_status, exit_price |-> None,
     actual_pnl |-> None, exit_trigger |-> None, closes |-> 0]

\* trades_db.py lines 179-198: rows of a status (and, for the engine, of
\* paper trades only), newest first
list_trades(ledger, status, paper_only) ==
    SelectSeq([k \in 1..Len(ledger) |-> ledger[Len(ledger) + 1 - k]],
              LAMBDA t : t.status = status /\ (paper_only => t.is_paper))

\* trades_db.py lines 201-226: UPDATE trades SET ... WHERE id = ?, whatever
\* the row's status is
update_trade(ledger, trade_id, data) ==
    IF trade_id \notin DOMAIN ledger THEN ledger
    ELSE LET row == ledger[trade_id]
         IN  [ledger EXCEPT ![trade_id] =
                [f \in DOMAIN row |->
                    IF f = "closes"
                    THEN row.closes + (IF "exit_trigger" \in DOMAIN data
                                       THEN 1 ELSE 0)
                    ELSE IF f \in DOMAIN data THEN data[f] ELSE row[f]]]

\* the ltp_map a batch fetch can return for the symbols asked for
LtpMaps(symbols, prices) ==
    {m \in [LiveSymbols -> prices \cup {0}] :
        \A s \in LiveSymbols \ symbols : m[s] = 0}

SymbolsOf(trades) == {trades[k].symbol : k \in 1..Len(trades)}

\* position_monitor.py lines 114-117 and 144-147
PmBackoff(consecutive_failures) ==
    Min2(_base_interval * 2^consecutive_failures, _max_interval)

\* the failure counters stay within the explored range
PmCanFail ==
    pm_consecutive_failures < lv_faults /\ pm_failed_cycles < lv_faults

\* lines 264-276: the closing update of _check_exit
PmExitData(trade, x) ==
    LET r == position_monitor_compute_exit_pnl(trade.entry_price, x.price,
                 trade.quantity, trade.trade_type)
    IN  [status |-> IF x.trigger = "TARGET" THEN "WON" ELSE "LOST",
         exit_price |-> Some(x.price), actual_pnl |-> Some(r.net_pnl),
         exit_trigger |-> Some(x.trigger)]

PmExitLedgerRegardless(ledger, trade, x, sell_succeeded) ==
    update_trade(ledger, trade.id, PmExitData(trade, x))

\* lines 255-276: without a placed SELL order _check_exit returns before
\* the update
PmExitLedger(ledger, trade, x, sell_succeeded) ==
    IF ~sell_succeeded THEN ledger
    ELSE update_trade(ledger, trade.id, PmExitData(trade, x))

LvIdle ==
    /\ lv_config = [max_positions_per_algo |-> 0, max_total_positions |-> 0]
    /\ lv_ledger = <<>>
    /\ lv_faults = 0
    /\ pm_pc = "stopped"
    /\ pm_open_trades = <<>>
    /\ pm_idx = 0
    /\ pm_ltp_map = [s \in LiveSymbols |-> 0]
    /\ pm_poll_interval = _base_interval
    /\ pm_consecutive_failures = 0
    /\ pm_cycle = "none"
    /\ pm_failed_cycles = 0
    /\ pm_last_exit = None
    /\ ae_pc = "stopped"
    /\ ae_open_positions = <<>>
    /\ ae_idx = 0
    /\ ae_ltp_map = [s \in LiveSymbols |-> 0]
    /\ ae_candidates = <<>>
    /\ ae_total_open = 0
    /\ ae_algo = 0
    /\ ae_stale_closed = FALSE

\* the ledgers the monitor is started on: up to MaxTrades open trades, each
\* a manual live trade whose BUY order was placed or an algo paper trade
RECURSIVE LedgersOfLen(_)
LedgersOfLen(n) ==
    IF n = 0 THEN {<<>>}
    ELSE UNION {{Append(l, LiveRow(n, "S1", FALSE, "", "PLACED")),
                 Append(l, LiveRow(n, "S2", TRUE, "A1", "SIMULATED"))} :
                    l \in LedgersOfLen(n - 1)}

\* PositionMonitor.__init__ lines 77-83 and start: the monitor thread
\* alone
PmInit ==
    /\ lv_config = [max_positions_per_algo |-> 0, max_total_positions |-> 0]
    /\ lv_ledger \in UNION {LedgersOfLen(n) : n \in 0..MaxTrades}
    /\ lv_faults = MaxFailures
    /\ pm_pc = "top"
    /\ pm_open_trades = <<>>
    /\ pm_idx = 0
    /\ pm_ltp_map = [s \in LiveSymbols |-> 0]
    /\ pm_poll_interval = _base_interval
    /\ pm_consecutive_failures = 0
    /\ pm_cycle = "none"
    /\ pm_failed_cycles = 0
    /\ pm_last_exit = None
    /\ ae_pc = "stopped"
    /\ ae_open_positions = <<>>
    /\ ae_idx = 0
    /\ ae_ltp_map = [s \in LiveSymbols |-> 0]
    /\ ae_candidates = <<>>
    /\ ae_total_open = 0
    /\ ae_algo = 0
    /\ ae_stale_closed = FALSE

\* both threads started on an empty ledger, every price fetch of the
\* monitor and every ledger access succeeding
LvInit ==
    /\ lv_config \in LiveConfigs
    /\ lv_ledger = <<>>
    /\ lv_faults = 0
    /\ pm_pc = "top"
    /\ pm_open_trades = <<>>
    /\ pm_idx = 0
    /\ pm_ltp_map = [s \in LiveSymbols |-> 0]
    /\ pm_poll_interval = _base_interval
    /\ pm_consecutive_failures = 0
    /\ pm_cycle = "none"
    /\ pm_failed_cycles = 0
    /\ pm_last_exit = None
    /\ ae_pc = "top"
    /\ ae_open_positions = <<>>
    /\ ae_idx = 0
    /\ ae_ltp_map = [s \in LiveSymbols |-> 0]
    /\ ae_candidates = <<>>
    /\ ae_total_open = 0
    /\ ae_algo = 0
    /\ ae_stale_closed = FALSE

\* _monitor_loop lines 101-129 and 141-147: the open trades, their prices
\* and the backoff decision of one polling cycle
PmList ==
    /\ pm_pc = "top"
    /\ UNCHANGED <<lvOthers, lv_config, lv_ledger, lv_faults, aeVars>>
    /\ \E db_raises \in BOOLEAN :
        LET open_trades == list_trades(lv_ledger, "OPEN", FALSE)
        IN  IF db_raises
            THEN \* list_trades raised: the handler of lines 141-147
                 /\ PmCanFail
                 /\ pm_consecutive_failures' = pm_consecutive_failures + 1
                 /\ pm_poll_interval' = PmBackoff(pm_consecutive_failures + 1)
                 /\ pm_cycle' = "failed"
                 /\ pm_failed_cycles' = pm_failed_cycles + 1
                 /\ pm_pc' = "sleep"
                 /\ pm_last_exit' = None
                 /\ UNCHANGED <<pm_open_trades, pm_idx, pm_ltp_map>>
            ELSE IF Len(open_trades) = 0
            THEN \* lines 104-106: nothing to watch
                 /\ pm_cycle' = "idle"
                 /\ pm_failed_cycles' = 0
                 /\ pm_pc' = "sleep"
                 /\ pm_open_trades' = open_trades
                 /\ pm_last_exit' = None
                 /\ UNCHANGED <<pm_idx, pm_ltp_map, pm_poll_interval,
                                pm_consecutive_failures>>
            ELSE \E ltp_map \in LtpMaps(SymbolsOf(open_trades), {100, 106}) :
                 /\ pm_open_trades' = open_trades
                 /\ pm_ltp_map' = ltp_map
                 /\ pm_idx' = 1
                 /\ pm_pc' = "rejected_check"
                 /\ pm_last_exit' = None
                 /\ IF \A s \in LiveSymbols : ltp_map[s] = 0
                    THEN /\ PmCanFail
                         /\ pm_consecutive_failures' =
                               pm_consecutive_failures + 1
                         /\ pm_poll_interval' =
                               PmBackoff(pm_consecutive_failures + 1)
                         /\ pm_cycle' = "failed"
                    ELSE /\ pm_consecutive_failures' = 0
                         /\ pm_poll_interval' = _base_interval
                         /\ pm_cycle' = "ok"
                 /\ UNCHANGED pm_failed_cycles

\* the for loop of lines 131-139 moves to the next trade or ends the cycle
PmNextTrade ==
    IF pm_idx < Len(pm_open_trades)
    THEN /\ pm_idx' = pm_idx + 1
         /\ pm_pc' = "rejected_check"
         /\ UNCHANGED pm_failed_cycles
    ELSE /\ pm_idx' = pm_idx
         /\ pm_pc' = "sleep"
         /\ pm_failed_cycles' = IF pm_cycle = "failed"
                                THEN pm_failed_cycles + 1 ELSE 0

\* lines 133-134 and 151-200: _check_order_rejected for the current trade
PmCheckOrderRejected ==
    /\ pm_pc = "rejected_check"
    /\ UNCHANGED <<lvOthers, lv_config, lv_faults, aeVars>>
    /\ UNCHANGED <<pm_open_trades, pm_ltp_map, pm_poll_interval,
                   pm_consecutive_failures, pm_cycle, pm_last_exit>>
    /\ LET trade == pm_open_trades[pm_idx]
       IN  IF trade.is_paper \/ trade.order_status # "PLACED"
           THEN /\ pm_pc' = "exit_check"
                /\ UNCHANGED <<lv_ledger, pm_idx, pm_failed_cycles>>
           ELSE \E order_status \in {"REJECTED", "EXECUTED", "OPEN", "raise"} :
                IF order_status = "REJECTED"
                THEN /\ lv_ledger' = update_trade(lv_ledger, trade.id,
                            [status |-> "FAILED",
                             order_status |-> order_status])
                     /\ PmNextTrade
                ELSE /\ lv_ledger' =
                            IF order_status = "EXECUTED"
                            THEN update_trade(lv_ledger, trade.id,
                                     [order_status |-> order_status])
                            ELSE lv_ledger
                     /\ pm_pc' = "exit_check"
                     /\ UNCHANGED <<pm_idx, pm_failed_cycles>>

\* lines 136-139 and 202-283: _check_exit for the current trade; an
\* exception of update_trade reaches the handler of lines 141-147
PmCheckExit ==
    /\ pm_pc = "exit_check"
    /\ UNCHANGED <<lvOthers, lv_config, lv_faults, aeVars>>
    /\ UNCHANGED <<pm_open_trades, pm_ltp_map>>
    /\ LET trade == pm_open_trades[pm_idx]
           ltp   == pm_ltp_map[trade.symbol]
           x     == MonitorExitTrigger(trade, ltp)
       IN  IF ltp <= 0 \/ x.trigger = "NONE"
           THEN /\ PmNextTrade
                /\ UNCHANGED <<lv_ledger, pm_poll_interval,
                               pm_consecutive_failures, pm_cycle,
                               pm_last_exit>>
           ELSE \E sell_raises \in (IF trade.is_paper THEN {FALSE}
                                    ELSE BOOLEAN),
                   db_raises \in BOOLEAN :
                /\ sell_raises => ~db_raises
                /\ pm_last_exit' = Some([id |-> trade.id,
                                         trigger |-> x.trigger,
                                         sell_succeeded |-> ~sell_raises])
                /\ IF db_raises
                   THEN /\ PmCanFail
                        /\ UNCHANGED <<lv_ledger, pm_idx>>
                        /\ pm_consecutive_failures' =
                              pm_consecutive_failures + 1
                        /\ pm_poll_interval' =
                              PmBackoff(pm_consecutive_failures + 1)
                        /\ pm_cycle' = "failed"
                        /\ pm_failed_cycles' = pm_failed_cycles + 1
                        /\ pm_pc' = "sleep"
                   ELSE /\ lv_ledger' = PmExitLedger(lv_ledger, trade, x,
                                                     ~sell_raises)
                        /\ PmNextTrade
                        /\ UNCHANGED <<pm_poll_interval,
                                       pm_consecutive_failures, pm_cycle>>

\* line 149 (and 105): time.sleep(self._poll_interval); the locals of the
\* finished iteration are dead
PmSleep ==
    /\ pm_pc = "sleep"
    /\ pm_pc' = "top"
    /\ pm_open_trades' = <<>>
    /\ pm_idx' = 0
    /\ pm_ltp_map' = [s \in LiveSymbols |-> 0]
    /\ UNCHANGED <<lvOthers, lv_config, lv_ledger, lv_faults, aeVars>>
    /\ UNCHANGED <<pm_poll_interval, pm_consecutive_failures, pm_cycle,
                   pm_failed_cycles, pm_last_exit>>

\* algo_engine.py lines 324-336 and 512-523: the closing update of the
\* engine; the status follows the sign of the net P&L
AeExitData(trade, ltp, trigger) ==
    LET r == position_monitor_compute_exit_pnl(trade.entry_price, ltp,
                 trade.quantity, "INTRADAY")
    IN  [status |-> IF r.net_pnl > 0 THEN "WON" ELSE "LOST",
         exit_price |-> Some(ltp), actual_pnl |-> Some(r.net_pnl),
         exit_trigger |-> Some(trigger)]

AlgoTrades(trades) == SelectSeq(trades, LAMBDA t : t.algo_id # "")

CountOf(trades, algo_id) ==
    Len(SelectSeq(trades, LAMBDA t : t.algo_id = algo_id))

\* algo_base.py lines 86-92
should_skip_symbol(algo_id, symbol, open_positions) ==
    \E k \in 1..Len(open_positions) :
        open_positions[k].symbol = symbol
        /\ open_positions[k].algo_id = algo_id

\* _loop lines 222-258: outside market hours or the trading window
AeLoopIdle ==
    /\ ae_pc = "top"
    /\ ae_pc' = "sleep"
    /\ UNCHANGED <<lvOthers, lv_config, lv_ledger, lv_faults, pmVars>>
    /\ UNCHANGED <<ae_open_positions, ae_idx, ae_ltp_map, ae_candidates,
                   ae_total_open, ae_algo, ae_stale_closed>>

\* _loop lines 235-243 and _force_close_all lines 503-511
AeForceCloseStart ==
    /\ ae_pc = "top"
    /\ UNCHANGED <<lvOthers, lv_config, lv_ledger, lv_faults, pmVars>>
    /\ UNCHANGED <<ae_candidates, ae_total_open, ae_algo, ae_stale_closed>>
    /\ LET algo_trades == AlgoTrades(list_trades(lv_ledger, "OPEN", TRUE))
       IN  IF Len(algo_trades) = 0
           THEN /\ ae_pc' = "sleep"
                /\ UNCHANGED <<ae_open_positions, ae_idx, ae_ltp_map>>
           ELSE \E ltp_map \in LtpMaps(SymbolsOf(algo_trades), {94}) :
                /\ ae_open_positions' = algo_trades
                /\ ae_ltp_map' = ltp_map
                /\ ae_idx' = 1
                /\ ae_pc' = "force_close"

\* _force_close_all lines 512-530, one trade of the loop
AeForceClose ==
    /\ ae_pc = "force_close"
    /\ UNCHANGED <<lvOthers, lv_config, lv_faults, pmVars>>
    /\ UNCHANGED <<ae_open_positions, ae_ltp_map, ae_candidates,
                   ae_total_open, ae_algo, ae_stale_closed>>
    /\ LET trade == ae_open_positions[ae_idx]
           ltp   == IF ae_ltp_map[trade.symbol] <= 0 THEN trade.entry_price
                    ELSE ae_ltp_map[trade.symbol]
       IN  lv_ledger' = update_trade(lv_ledger, trade.id,
                            AeExitData(trade, ltp, "FORCE_CLOSE"))
    /\ IF ae_idx < Len(ae_open_positions)
       THEN ae_idx' = ae_idx + 1 /\ ae_pc' = "force_close"
       ELSE ae_idx' = ae_idx /\ ae_pc' = "sleep"

\* _run_cycle lines 270-311: universe, open paper positions, prices
AeCycleStart ==
    /\ ae_pc = "top"
    /\ UNCHANGED <<lvOthers, lv_config, lv_ledger, lv_faults, pmVars>>
    /\ UNCHANGED <<ae_total_open, ae_algo>>
    /\ \E candidates \in {<<>>, <<"S1", "S2">>} :
        IF Len(candidates) = 0
        THEN /\ ae_pc' = "cycle_done"
             /\ UNCHANGED <<ae_open_positions, ae_idx, ae_ltp_map,
                            ae_candidates, ae_stale_closed>>
        ELSE LET open_positions == list_trades(lv_ledger, "OPEN", TRUE)
                 all_symbols ==
                     {candidates[k] : k \in 1..Len(candidates)}
                        \cup SymbolsOf(AlgoTrades(open_positions))
             IN  \E ltp_map \in LtpMaps(all_symbols, {94}) :
                    /\ ae_candidates' = candidates
                    /\ ae_open_positions' = open_positions
                    /\ ae_ltp_map' = ltp_map
                    /\ ae_idx' = 1
                    /\ ae_stale_closed' = FALSE
                    /\ ae_pc' = "time_exit"

\* _run_cycle lines 313-349, one trade of the loop: an algo trade older
\* than max_trade_duration_minutes is closed at the fetched price
AeTimeExit ==
    /\ ae_pc = "time_exit"
    /\ ae_idx <= Len(ae_open_positions)
    /\ UNCHANGED <<lvOthers, lv_config, lv_faults, pmVars>>
    /\ UNCHANGED <<ae_open_positions, ae_ltp_map, ae_candidates,
                   ae_total_open, ae_algo, ae_pc>>
    /\ ae_idx' = ae_idx + 1
    /\ LET trade == ae_open_positions[ae_idx]
           ltp   == ae_ltp_map[trade.symbol]
       IN  \E stale \in BOOLEAN :
              IF trade.algo_id # "" /\ stale /\ ltp > 0
              THEN /\ lv_ledger' = update_trade(lv_ledger, trade.id,
                                       AeExitData(trade, ltp, "TIME_EXIT"))
                   /\ ae_stale_closed' = TRUE
              ELSE UNCHANGED <<lv_ledger, ae_stale_closed>>

\* _run_cycle lines 351-357: the open positions are read again after a
\* time exit and counted
AeCountOpen ==
    /\ ae_pc = "time_exit"
    /\ ae_idx > Len(ae_open_positions)
    /\ UNCHANGED <<lvOthers, lv_config, lv_ledger, lv_faults, pmVars>>
    /\ UNCHANGED <<ae_ltp_map, ae_candidates, ae_stale_closed, ae_idx>>
    /\ LET open_positions == IF ae_stale_closed
                             THEN list_trades(lv_ledger, "OPEN", TRUE)
                             ELSE ae_open_positions
       IN  /\ ae_open_positions' = open_positions
           /\ ae_total_open' = Len(AlgoTrades(open_positions))
    /\ ae_algo' = 1
    /\ ae_pc' = "algo"

\* _run_cycle lines 359-375: the per-algorithm and the total cap are tested
\* once before the candidates of an algorithm are walked
AeAlgo ==
    /\ ae_pc = "algo"
    /\ UNCHANGED <<lvOthers, lv_config, lv_ledger, lv_faults, pmVars>>
    /\ UNCHANGED <<ae_open_positions, ae_ltp_map, ae_candidates,
                   ae_total_open, ae_stale_closed>>
    /\ IF ae_algo > Len(LiveAlgos)
       THEN ae_pc' = "cycle_done" /\ UNCHANGED <<ae_algo, ae_idx>>
       ELSE IF CountOf(ae_open_positions, LiveAlgos[ae_algo])
                  >= lv_config.max_positions_per_algo
       THEN ae_algo' = ae_algo + 1 /\ UNCHANGED <<ae_pc, ae_idx>>
       ELSE IF ae_total_open >= lv_config.max_total_positions
       THEN ae_pc' = "cycle_done" /\ UNCHANGED <<ae_algo, ae_idx>>
       ELSE ae_pc' = "candidate" /\ ae_idx' = 1 /\ UNCHANGED ae_algo

\* _run_cycle lines 377-416 and _execute_signal lines 441-500: one
\* candidate of the current algorithm
AeCandidate ==
    /\ ae_pc = "candidate"
    /\ UNCHANGED <<lvOthers, lv_config, lv_faults, pmVars>>
    /\ UNCHANGED <<ae_ltp_map, ae_candidates, ae_stale_closed>>
    /\ IF ae_idx > Len(ae_candidates)
          \/ ae_total_open >= lv_config.max_total_positions
       THEN /\ ae_pc' = "algo"
            /\ ae_algo' = ae_algo + 1
            /\ UNCHANGED <<lv_ledger, ae_open_positions, ae_idx,
                           ae_total_open>>
       ELSE LET algo_id == LiveAlgos[ae_algo]
                symbol  == ae_candidates[ae_idx]
            IN  /\ ae_idx' = ae_idx + 1
                /\ UNCHANGED <<ae_pc, ae_algo>>
                /\ IF ae_ltp_map[symbol] <= 0
                      \/ should_skip_symbol(algo_id, symbol,
                                            ae_open_positions)
                   THEN UNCHANGED <<lv_ledger, ae_open_positions,
                                    ae_total_open>>
                   ELSE \E created \in BOOLEAN :
                        \* a BUY signal whose trade was created, or no
                        \* candles, no signal, no capital, an exception
                        IF created /\ Len(lv_ledger) < MaxTrades
                        THEN LET trade == LiveRow(Len(lv_ledger) + 1,
                                              symbol, TRUE, algo_id,
                                              "SIMULATED")
                             IN  /\ lv_ledger' = Append(lv_ledger, trade)
                                 /\ ae_total_open' = ae_total_open + 1
                                 /\ ae_open_positions' =
                                       Append(ae_open_positions, trade)
                        ELSE UNCHANGED <<lv_ledger, ae_open_positions,
                                         ae_total_open>>

\* _loop line 266 (and 242, 257): time.sleep(self._cycle_interval); the
\* locals of _run_cycle and _force_close_all are dead
AeSleep ==
    /\ ae_pc \in {"sleep", "cycle_done"}
    /\ ae_pc' = "top"
    /\ ae_open_positions' = <<>>
    /\ ae_idx' = 0
    /\ ae_ltp_map' = [s \in LiveSymbols |-> 0]
    /\ ae_candidates' = <<>>
    /\ ae_total_open' = 0
    /\ ae_algo' = 0
    /\ ae_stale_closed' = FALSE
    /\ UNCHANGED <<lvOthers, lv_config, lv_ledger, lv_faults, pmVars>>

----------------------------------------------------------------------------
(* Specifications *)

ExitInit ==
    /\ ExInit /\ BtIdle /\ SimIdle /\ DpIdle /\ CacheIdle /\ MetIdle
    /\ FeeIdle /\ LvIdle

ExitNext == ExApply

SpecExit == ExitInit /\ [][ExitNext]_vars

EnginesInit ==
    /\ ExIdle /\ DpIdle /\ CacheIdle /\ MetIdle /\ FeeIdle /\ LvIdle
    /\ \/ BtInit /\ SimIdle
       \/ BtIdle /\ SimInit

EnginesNext ==
    \/ BtStart
    \/ BtExitCheck
    \/ BtAfterTrade
    \/ BtEntry
    \/ BtAfterProgress
    \/ BtPostLoop
    \/ BtReturn
    \/ SimStart
    \/ SimBar
    \/ SimBarRaises
    \/ SimEod

SpecEngines == EnginesInit /\ [][EnginesNext]_vars

DailyPicksInit ==
    /\ ExIdle /\ BtIdle /\ SimIdle /\ DpInit /\ CacheIdle /\ MetIdle
    /\ FeeIdle /\ LvIdle

DailyPicksNext ==
    \/ DpStart
    \/ DpDayStart
    \/ DpAfterSkip
    \/ DpSubmit
    \/ DpWorkerStart
    \/ DpWorkerFinish
    \/ DpTakeFuture
    \/ DpAfterTrade
    \/ DpDayComplete
    \/ DpAfterDayComplete
    \/ DpFinish
    \/ DpReturn

SpecDailyPicks == DailyPicksInit /\ [][DailyPicksNext]_vars

CacheSpecInit ==
    /\ ExIdle /\ BtIdle /\ SimIdle /\ DpIdle /\ CacheInit /\ MetIdle
    /\ FeeIdle /\ LvIdle

CacheNext ==
    \/ CacheLoad
    \/ CacheFetch
    \/ CacheStoreChunk
    \/ CacheMerge

SpecCache == CacheSpecInit /\ [][CacheNext]_vars

MetricsInit ==
    /\ ExIdle /\ BtIdle /\ SimIdle /\ DpIdle /\ CacheIdle /\ MetInit
    /\ FeeIdle /\ LvIdle

MetricsNext == ComputeMetrics

SpecMetrics == MetricsInit /\ [][MetricsNext]_vars

FeesInit ==
    /\ ExIdle /\ BtIdle /\ SimIdle /\ DpIdle /\ CacheIdle /\ MetIdle
    /\ FeeInit /\ LvIdle

FeesNext == FeeCall

SpecFees == FeesInit /\ [][FeesNext]_vars

MonitorInit ==
    /\ ExIdle /\ BtIdle /\ SimIdle /\ DpIdle /\ CacheIdle /\ MetIdle
    /\ FeeIdle /\ PmInit

MonitorNext ==
    \/ PmList
    \/ PmCheckOrderRejected
    \/ PmCheckExit
    \/ PmSleep

SpecMonitor == MonitorInit /\ [][MonitorNext]_vars

LiveInit ==
    /\ ExIdle /\ BtIdle /\ SimIdle /\ DpIdle /\ CacheIdle /\ MetIdle
    /\ FeeIdle /\ LvInit

LiveNext ==
    \/ PmList
    \/ PmCheckOrderRejected
    \/ PmCheckExit
    \/ PmSleep
    \/ AeLoopIdle
    \/ AeForceCloseStart
    \/ AeForceClose
    \/ AeCycleStart
    \/ AeTimeExit
    \/ AeCountOpen
    \/ AeAlgo
    \/ AeCandidate
    \/ AeSleep

SpecLive == LiveInit /\ [][LiveNext]_vars

----------------------------------------------------------------------------
(* Properties of the single-symbol engine and of the intraday simulation   *)

\* positions of run_backtest that were opened and not yet recorded as closed
BtOpenCount == bt_opened - Len(bt_trades)

\* C1: in run_backtest at most one position is open in every reachable
\* state, and a position is opened on a bar only in the entry step of that
\* bar (after its exit check) and only when no position is open then.
C1_AtMostOnePosition ==
    /\ [](BtOpenCount \in {0, 1})
    /\ [][bt_opened' # bt_opened =>
            /\ bt_pc = "entry"
            /\ IsNone(bt_open_position)
            /\ bt_opened' = bt_opened + 1
            /\ ~IsNone(bt_open_position')]_vars

\* a position was closed and a new one opened on the same bar
C1_Witness ==
    /\ bt_pc = "progress_yield"
    /\ Len(bt_trades) >= 1
    /\ ~IsNone(bt_open_position)
    /\ bt_open_position[1].entry_time = Last(bt_trades).exit_time

EvalArgsAreHistory(e, candles) ==
    /\ Len(e.candles) = e.i + 1
    /\ \A k \in 1..Len(e.candles) : e.candles[k] = candles[k]
    /\ e.ltp = candles[e.i + 1].close

\* C2: no look-ahead.  In both engines every evaluate call is made for the
\* bar being processed (index i), receives exactly candles 0..i (i + 1
\* candles, none later than bar i) and bar i's close as current price.
C2_NoLookAhead ==
    /\ [](/\ ~IsNone(bt_eval) => EvalArgsAreHistory(bt_eval[1], bt_candles)
          /\ ~IsNone(sim_eval) => EvalArgsAreHistory(sim_eval[1], sim_candles))
    /\ [][/\ bt_eval' # bt_eval => bt_eval'[1].i = bt_i
          /\ sim_eval' # sim_eval => sim_eval'[1].i = sim_i]_vars

\* both engines have evaluated a bar that is not the last of its series
C2_WitnessBt ==
    /\ ~IsNone(bt_eval)
    /\ bt_eval[1].i + 1 < Len(bt_candles)

C2_WitnessSim ==
    /\ ~IsNone(sim_eval)
    /\ sim_eval[1].i + 1 < Len(sim_candles)

C2_Witness == C2_WitnessBt \/ C2_WitnessSim

\* C3 (as claimed): for every long position with stop_loss < target and
\* every bar, run_backtest and _simulate_symbol_intraday choose the same
\* exit trigger and the same exit price.
C3_ExitRulesAgree ==
    (/\ ex_pc = "applied"
     /\ ex_pos.entry_price > ex_pos.stop_loss
     /\ ex_pos.stop_loss < ex_pos.target)
    => ex_bt = ex_sim

BtBothTouched(pos, candle) ==
    candle.high >= pos.target /\ candle.low <= pos.stop_loss

BtClosedWith(trigger, price) ==
    /\ bt_pc' = "trade_yield"
    /\ bt_trades' = Append(bt_trades, Last(bt_trades'))
    /\ Last(bt_trades').exit_trigger = trigger
    /\ Last(bt_trades').exit_price = price
    /\ Last(bt_events') = [event_type |-> "trade", trade |-> Last(bt_trades')]

BtStaysOpen ==
    /\ bt_pc' = "entry"
    /\ bt_trades' = bt_trades
    /\ bt_open_position' = bt_open_position

\* C4: same-bar tie-break of run_backtest.  On the exit check of a bar with
\* a position open: both levels touched -> TARGET at the target price if
\* |target - open| <= |open - stop_loss| (a tie goes to TARGET), else SL at
\* the stop price; one level touched -> that level; none -> stays open.
C4_TieBreak ==
    [][(bt_pc = "bar" /\ ~IsNone(bt_open_position)) =>
        LET pos == bt_open_position[1]
            c   == bt_candles[bt_i + 1]
        IN  IF BtBothTouched(pos, c)
            THEN IF Abs(pos.target - c.open) <= Abs(c.open - pos.stop_loss)
                 THEN BtClosedWith("TARGET", pos.target)
                 ELSE BtClosedWith("SL", pos.stop_loss)
            ELSE IF c.high >= pos.target
            THEN BtClosedWith("TARGET", pos.target)
            ELSE IF c.low <= pos.stop_loss
            THEN BtClosedWith("SL", pos.stop_loss)
            ELSE BtStaysOpen]_vars

\* a bar touched both levels at equal distance from its open and the
\* position was closed on it
C4_Witness ==
    /\ bt_pc = "trade_yield"
    /\ BtBothTouched(bt_open_position[1], bt_candles[bt_i + 1])
    /\ Abs(bt_open_position[1].target - bt_candles[bt_i + 1].open)
         = Abs(bt_candles[bt_i + 1].open - bt_open_position[1].stop_loss)
    /\ Last(bt_trades).exit_trigger = "TARGET"

\* bars of run_backtest whose equity point has been appended
BtBarsProcessed == IF bt_pc = "progress_yield" THEN bt_i + 1 ELSE bt_i

BtClosedBy(time) == SelectSeq(bt_trades, LAMBDA t : t.exit_time <= time)

\* C5: equity curve of run_backtest.  After bar i the curve has i + 1
\* points; point i carries bar i's time and
\* initial_capital + sum of pnl of the trades closed at or before bar i.
C5_EquityCurve ==
    (bt_pc # "idle") =>
        /\ Len(bt_equity_curve) = BtBarsProcessed
        /\ \A k \in 1..Len(bt_equity_curve) :
              /\ bt_equity_curve[k].time = bt_candles[k].time
              /\ bt_equity_curve[k].equity =
                    bt_in.initial_capital
                      + SumPnl(BtClosedBy(bt_candles[k].time))

\* the point of a bar on which a trade was closed has been appended
C5_Witness ==
    /\ Len(bt_trades) >= 1
    /\ Len(bt_equity_curve) >= 1
    /\ Last(bt_equity_curve).time = Last(bt_trades).exit_time
    /\ Last(bt_trades).pnl # 0

BtTerminated == bt_pc \in {"done", "raised"}

\* C6 (as claimed): a run_backtest run that passes validation and obtains
\* at least one candle ends with exactly one 'complete' event without error,
\* carrying the trade list and the equity curve, after the final bar's
\* progress event.
C6_RunCompletes ==
    (BtTerminated /\ BtValidInput(bt_in) /\ Len(bt_candles) >= 1) =>
        /\ bt_pc = "done"
        /\ Len(bt_events) >= 2
        /\ Last(bt_events).event_type = "complete"
        /\ ~Last(bt_events).error
        /\ Last(bt_events).trades = bt_trades
        /\ Last(bt_events).equity_curve = bt_equity_curve
        /\ bt_events[Len(bt_events) - 1].event_type = "progress"
        /\ \A k \in 1..(Len(bt_events) - 1) :
              bt_events[k].event_type # "complete"

----------------------------------------------------------------------------
(* Properties of the daily-picks engine                                    *)

DpTerminated == dp_pc \in {"done", "raised"}

\* C7 (as claimed): a run_daily_picks_backtest run with a registered
\* strategy and at least one trading day in range ends with a 'complete'
\* event carrying the aggregated trade list, the day-level equity curve and
\* the metrics.
C7_RunCompletes ==
    (/\ DpTerminated
     /\ dp_in.algo_found
     /\ Len(_get_trading_days(dp_in.start_date, dp_in.end_date)) >= 1)
    => /\ dp_pc = "done"
       /\ Len(dp_events) >= 1
       /\ Last(dp_events).event_type = "complete"
       /\ Last(dp_events).trades = dp_all_trades
       /\ Last(dp_events).equity_curve = dp_equity_curve

DpTradesBefore(date) == SelectSeq(dp_all_trades, LAMBDA t : t.date < date)

DpTradesUpTo(date) == SelectSeq(dp_all_trades, LAMBDA t : t.date <= date)

\* C8: capital compounding with a day-start snapshot.  Every simulation of
\* a trading day that has started was given as capital basis
\* initial_capital + sum of pnl of the trades closed on earlier trading
\* days: the same value for all simulations of the day, whatever the order in
\* which siblings finish, and unchanged by the day's own trades.
C8_CapitalBasis ==
    \A k \in 1..Len(dp_tasks) :
        dp_tasks[k].state # "pending" =>
            dp_tasks[k].basis =
                dp_in.initial_capital
                  + SumPnl(DpTradesBefore(dp_tasks[k].date))

\* on a later day a simulation runs on compounded capital while a sibling's
\* trades of the same day are already recorded
C8_Witness ==
    \E k \in 1..Len(dp_tasks) :
        /\ dp_tasks[k].state = "running"
        /\ dp_tasks[k].basis # dp_in.initial_capital
        /\ \E j \in 1..Len(dp_tasks) :
              /\ j # k
              /\ dp_tasks[j].date = dp_tasks[k].date
              /\ dp_tasks[j].consumed
              /\ Len(dp_tasks[j].result) > 0

\* the equity of a day has been finalized: its point is on the curve and
\* holds initial_capital plus the pnl of all trades up to that day
DpEquityFinalized(date) ==
    \E i \in 2..Len(dp_equity_curve) :
        /\ dp_equity_curve[i].date = date
        /\ dp_equity_curve[i].equity =
              dp_in.initial_capital + SumPnl(DpTradesUpTo(date))

DpDaySequenced ==
    \A j, k \in 1..Len(dp_tasks) :
        (dp_tasks[k].state # "pending" /\ dp_tasks[j].date < dp_tasks[k].date)
        => /\ dp_tasks[j].state = "done"
           /\ dp_tasks[j].consumed
           /\ DpEquityFinalized(dp_tasks[j].date)

DpEventsSequenced ==
    \A a, b \in 1..Len(dp_events) :
        /\ (/\ dp_events[a].event_type \in {"trade", "day_complete"}
            /\ dp_events[b].event_type = "day_start"
            /\ dp_events[a].date < dp_events[b].date) => a < b
        /\ (/\ dp_events[a].event_type = "trade"
            /\ dp_events[b].event_type = "day_complete"
            /\ dp_events[a].date = dp_events[b].date) => a < b
        /\ (/\ a < b
            /\ dp_events[a].event_type = "day_start"
            /\ dp_events[a].candidates_count > 0
            /\ dp_events[b].event_type = "day_start")
           => \E c \in (a + 1)..(b - 1) :
                 /\ dp_events[c].event_type = "day_complete"
                 /\ dp_events[c].date = dp_events[a].date

\* C10: day-level sequencing.  No simulation of a later trading day has
\* started unless every simulation of each earlier day is finished and
\* handed over and that day's equity is finalized; in the event stream the
\* trade events and the day_complete event of a day precede the day_start
\* event of any later day.
C10_DaySequencing == DpDaySequenced /\ DpEventsSequenced

\* a simulation of the second simulated day is running after trades of the
\* first day were streamed
C10_Witness ==
    /\ \E j, k \in 1..Len(dp_tasks) :
          /\ dp_tasks[j].date < dp_tasks[k].date
          /\ dp_tasks[k].state = "running"
          /\ Len(dp_tasks[j].result) > 0
    /\ \E a, b \in 1..Len(dp_events) :
          /\ dp_events[a].event_type = "trade"
          /\ dp_events[b].event_type = "day_start"
          /\ dp_events[a].date < dp_events[b].date

----------------------------------------------------------------------------
(* C11: parallel simulations and the evaluator object *)

\* a running simulation writes its evaluator (set_runtime_params,
\* daily_picks_backtest.py line 81) and reads it (evaluate, line 158)
DpRunning == {k \in 1..Len(dp_tasks) : dp_tasks[k].state = "running"}

\* C11: no evaluator object is read or written by two simulations that run
\* at the same time: two concurrently running per-symbol simulations never
\* work on the same evaluator instance.
C11_NoSharedEvaluator ==
    \A j \in DpRunning : \A k \in DpRunning :
        j # k => dp_tasks[j].algo # dp_tasks[k].algo

----------------------------------------------------------------------------
(* C12: positions open at the same time across the symbols of a day *)

DpOpenAt(trades, date, t) ==
    {k \in 1..Len(trades) :
        /\ trades[k].date = date
        /\ trades[k].entry_time <= t
        /\ t < trades[k].exit_time}

\* C12: on no trading day do the simulated trades of the run contain more
\* than max_positions_per_day positions that are open at the same time,
\* counted over all symbols of the day.
C12_MaxConcurrentPositions ==
    \A k \in 1..Len(dp_all_trades) :
        Cardinality(DpOpenAt(dp_all_trades, dp_all_trades[k].date,
                             dp_all_trades[k].entry_time))
            <= dp_in.max_positions_per_day

----------------------------------------------------------------------------
(* C13: the live monitor and run_backtest on a single price *)

\* "long" as both the monitor (line 209) and the daily-picks engine decide it
ExLong(pos) == pos.entry_price > pos.stop_loss

\* a bar whose open, high and low are the price p
ExFlatBarAt(bar, p) == bar.open = p /\ bar.high = p /\ bar.low = p

\* C13: for a long position with stop_loss < target and a price p, the
\* monitor's _check_exit on LTP p and run_backtest on a bar with
\* open = high = low = p select the same trigger: SL if p <= stop_loss,
\* else TARGET if p >= target, else none.
C13_SinglePriceParity ==
    (/\ ex_pc = "applied"
     /\ ExLong(ex_pos)
     /\ ex_pos.stop_loss < ex_pos.target
     /\ ExFlatBarAt(ex_bar, ex_ltp))
    => /\ ex_mon.trigger = ex_bt.trigger
       /\ ex_mon.trigger = IF ex_ltp <= ex_pos.stop_loss THEN "SL"
                           ELSE IF ex_ltp >= ex_pos.target THEN "TARGET"
                           ELSE "NONE"

\* a long position checked exactly at its stop-loss price: both say SL
C13_Witness ==
    /\ ex_pc = "applied"
    /\ ExLong(ex_pos)
    /\ ex_pos.stop_loss < ex_pos.target
    /\ ExFlatBarAt(ex_bar, ex_ltp)
    /\ ex_ltp = ex_pos.stop_loss
    /\ ex_mon.trigger = "SL"
    /\ ex_bt.trigger = "SL"

----------------------------------------------------------------------------
(* C14: a second, identical get_candles call *)

\* call b ran after call a had returned, with the same arguments, against
\* the same source content
CacheRepeats(a, b) ==
    /\ cache_call[a].pc = "returned"
    /\ cache_call[b].pc = "returned"
    /\ cache_call[a].seq < cache_call[b].seq
    /\ ~cache_call[a].overlapped
    /\ ~cache_call[b].overlapped
    /\ cache_call[a].start_date = cache_call[b].start_date
    /\ cache_call[a].end_date = cache_call[b].end_date
    /\ cache_call[a].interval = cache_call[b].interval
    /\ cache_source[a] = cache_source[b]

\* C14: a second get_candles call with identical arguments issues zero
\* fetch calls and returns the same candle list as the first call, for
\* every source content, days without candles included.
C14_IdempotentFill ==
    \A a \in CacheCalls : \A b \in CacheCalls :
        CacheRepeats(a, b)
        => /\ cache_call[b].fetches = 0
           /\ cache_call[b].result = cache_call[a].result

----------------------------------------------------------------------------
(* C15: order of the returned list *)

StrictlyAscending(cs) ==
    \A k \in 1..(Len(cs) - 1) : cs[k].time < cs[k + 1].time

\* C15: the list get_candles returns is strictly ascending in time (sorted,
\* no two candles with the same timestamp), whatever mix of cached and
\* freshly fetched day buckets it is merged from.
C15_StrictlyAscending ==
    \A c \in CacheCalls :
        cache_call[c].pc = "returned"
        => StrictlyAscending(cache_call[c].result[1])

\* a call returned candles of a bucket it found cached and of a bucket it
\* fetched, the source holding a repeated timestamp
C15_Witness ==
    \E c \in CacheCalls :
        /\ cache_call[c].pc = "returned"
        /\ \E d \in CacheDates :
              /\ ~IsNone(cache_call[c].store0[d])
              /\ IsNone(cache_call[c].wrote[d])
              /\ Len(cache_call[c].cached_by_date[d][1]) = 3
        /\ \E d \in CacheDates :
              /\ ~IsNone(cache_call[c].wrote[d])
              /\ Len(cache_call[c].wrote[d][1]) > 0
        /\ Len(cache_call[c].result[1]) >= 4

----------------------------------------------------------------------------
(* C16: a failing chunk fetch *)

\* no other call touched the store while call c ran
CacheRanAlone(c) ==
    /\ ~cache_call[c].overlapped
    /\ \A o \in CacheCalls \ {c} :
          cache_call[o].pc = "start" \/ cache_call[o].seq < cache_call[c].seq

\* C16: when a chunk fetch raises, get_candles raises to its caller and
\* returns no list, and the store holds what it held before the call plus
\* the day buckets of the chunks completed before the failing one.
C16_FetchFailure ==
    \A c \in CacheCalls :
        cache_call[c].fetch_failed
        => /\ cache_call[c].pc = "raised"
           /\ IsNone(cache_call[c].result)
           /\ CacheRanAlone(c)
              => \A d \in CacheDates :
                    cache_store[d] =
                        IF IsNone(cache_call[c].wrote[d])
                        THEN cache_call[c].store0[d]
                        ELSE cache_call[c].wrote[d]

\* the second chunk of a call failed after its first chunk had stored a
\* bucket, in a store that already held another bucket
C16_Witness ==
    \E c \in CacheCalls :
        /\ cache_call[c].pc = "raised"
        /\ cache_call[c].fetches = 2
        /\ CacheRanAlone(c)
        /\ \E d \in CacheDates : ~IsNone(cache_call[c].wrote[d])
        /\ \E d \in CacheDates :
              /\ IsNone(cache_call[c].wrote[d])
              /\ ~IsNone(cache_call[c].store0[d])

----------------------------------------------------------------------------
(* C17: concurrent fills of overlapping ranges *)

\* the complete day bucket of date d as call c fetches it
CompleteDayBucket(c, d) ==
    SortByTime(_parse_candles_response(cache_source[c][d]))

\* C17: at every moment every persisted bucket is the complete day bucket
\* written by one of the calls, never a mixture of two writes or a part of
\* one.
C17_BucketsWhole ==
    \A d \in CacheDates :
        ~IsNone(cache_store[d])
        => \E c \in CacheCalls :
              /\ cache_call[c].wrote[d] = cache_store[d]
              /\ cache_store[d][1] = CompleteDayBucket(c, d)

\* two overlapping calls ran concurrently and wrote different buckets for
\* the first date
C17_Witness ==
    /\ \A c \in CacheCalls : cache_call[c].overlapped
    /\ ~IsNone(cache_call[1].wrote[1])
    /\ ~IsNone(cache_call[2].wrote[1])
    /\ cache_call[1].wrote[1] # cache_call[2].wrote[1]
    /\ cache_store[1] \in {cache_call[1].wrote[1], cache_call[2].wrote[1]}

----------------------------------------------------------------------------
(* C18: rejected date ranges *)

BtRejectedInput ==
    bt_in.start_date > bt_in.end_date \/ bt_in.end_date > bt_in.today

\* C18: when start_date > end_date or end_date > today, run_backtest
\* produces exactly one event, carrying an error and empty metrics, trades
\* and equity curve; it fetches no candles, calls the strategy never, and
\* raises no exception.
C18_RejectedDates ==
    (BtRejectedInput /\ bt_pc \notin {"idle", "start"})
    => /\ bt_pc \in {"complete_yield", "done"}
       /\ Len(bt_events) = 1
       /\ bt_events[1].event_type = "complete"
       /\ bt_events[1].error
       /\ bt_events[1].metrics = <<>>
       /\ bt_events[1].trades = <<>>
       /\ bt_events[1].equity_curve = <<>>
       /\ bt_called = {}
       /\ IsNone(bt_eval)

\* a run for an end date after today has returned after its one event
C18_Witness ==
    /\ bt_in.start_date <= bt_in.end_date
    /\ bt_in.end_date > bt_in.today
    /\ bt_pc = "done"
    /\ Len(bt_events) = 1

----------------------------------------------------------------------------
(* C19: a failing candle fetch in run_backtest *)

\* C19: when the candle fetch fails, the run ends with a terminal event
\* that carries an error, and no exception leaves run_backtest.
C19_FetchFailureReported ==
    (/\ bt_in.fetch_raises
     /\ ~BtRejectedInput
     /\ bt_pc \notin {"idle", "start"})
    => /\ bt_pc # "raised"
       /\ Len(bt_events) >= 1
       /\ Last(bt_events).event_type = "complete"
       /\ Last(bt_events).error

----------------------------------------------------------------------------
(* C20: an exception of the strategy evaluator *)

\* the step evaluates bar bt_i and the evaluator raises
BtEvalRaises ==
    /\ bt_pc = "entry"
    /\ BtShouldEvaluate(bt_open_position, bt_i)
    /\ ~IsNone(bt_eval')
    /\ bt_eval'[1].i = bt_i
    /\ bt_eval'[1].outcome = "raise"

\* the step evaluates bar sim_i and the evaluator raises
SimEvalRaises ==
    /\ sim_pc = "bar"
    /\ sim_eval' # sim_eval
    /\ sim_eval'[1].i = sim_i
    /\ sim_eval'[1].outcome = "raise"

\* C20: an evaluator exception on bar i counts as "no signal": in both
\* engines no position is opened on bar i, the trades, the open position
\* and the equity stay as they were before the call, and the loop goes on
\* to the next bar.
C20_EvalExceptionIsNoSignal ==
    [][/\ BtEvalRaises
          => /\ bt_open_position' = bt_open_position
             /\ bt_opened' = bt_opened
             /\ bt_trades' = bt_trades
             /\ bt_realized_pnl' = bt_realized_pnl
             /\ bt_current_equity' = bt_current_equity
             /\ bt_pc' # "raised"
             /\ \/ bt_pc' = "progress_yield" /\ bt_i' = bt_i
                \/ bt_pc' = BtNextPc(bt_i, Len(bt_candles))
                     /\ bt_i' = bt_i + 1
       /\ SimEvalRaises
          => /\ IsNone(sim_open_position')
             /\ sim_opened' = sim_opened
             \* the only trade the iteration may add is the exit of the
             \* position that was open when bar i began
             /\ IF IsNone(sim_open_position)
                THEN sim_trades' = sim_trades
                ELSE /\ Len(sim_trades') = Len(sim_trades) + 1
                     /\ SubSeq(sim_trades', 1, Len(sim_trades)) = sim_trades
                     /\ Last(sim_trades').entry_time
                            = sim_open_position[1].entry_time
                     /\ Last(sim_trades').exit_time
                            = sim_candles[sim_i + 1].time
             /\ IsNone(sim_returned')
             /\ sim_i' = sim_i + 1
             /\ sim_pc' = IF sim_i + 1 < Len(sim_candles) THEN "bar"
                          ELSE "eod"]_vars

\* an engine is working on a bar after the one whose evaluation raised
C20_WitnessBt ==
    /\ ~IsNone(bt_eval)
    /\ bt_eval[1].outcome = "raise"
    /\ bt_pc = "entry"
    /\ bt_i > bt_eval[1].i

C20_WitnessSim ==
    /\ ~IsNone(sim_eval)
    /\ sim_eval[1].outcome = "raise"
    /\ sim_pc = "bar"
    /\ sim_i = sim_eval[1].i + 1
    /\ IsNone(sim_open_position)

C20_Witness == C20_WitnessBt \/ C20_WitnessSim

----------------------------------------------------------------------------
(* C21: a per-symbol simulation that raises *)

\* C21: a symbol whose simulation raises, during the candle fetch or in
\* the middle of the bar loop, contributes zero trades to its day: the
\* list _simulate_symbol_intraday hands back to the day loop is empty.
C21_FailedSymbolHasNoTrades ==
    (sim_pc = "returned" /\ sim_caught) => sim_returned = Some(<<>>)

----------------------------------------------------------------------------
(* C22: run_backtest never force-closes *)

\* the bar loop of run_backtest has processed its last bar and the code
\* after the loop has run
BtAfterLastBar ==
    /\ bt_pc \in {"raised", "complete_yield", "done"}
    /\ Len(bt_candles) > 0
    /\ bt_i = Len(bt_candles)

BtTradeEvents == SelectSeq(bt_events, LAMBDA e : e.event_type = "trade")

\* C22: a position still open after the last bar of run_backtest gets no
\* closed trade and no trade event; every trade of the list was closed by
\* TARGET or SL; the final equity holds no P&L of the open position.
C22_NoForceClose ==
    /\ \A k \in 1..Len(bt_trades) :
          bt_trades[k].exit_trigger \in {"TARGET", "SL"}
    /\ BtAfterLastBar
       => /\ Len(BtTradeEvents) = Len(bt_trades)
          /\ \A k \in 1..Len(bt_trades) :
                BtTradeEvents[k].trade = bt_trades[k]
          /\ bt_current_equity = bt_in.initial_capital + SumPnl(bt_trades)
          /\ Last(bt_equity_curve).equity
                = bt_in.initial_capital + SumPnl(bt_trades)
          /\ ~IsNone(bt_open_position)
             => /\ Len(bt_trades) = bt_opened - 1
                /\ \A k \in 1..Len(bt_trades) :
                      bt_trades[k].exit_time
                          <= bt_open_position[1].entry_time

\* the loop has ended with a position open that was entered after an
\* earlier trade had been closed
C22_Witness ==
    /\ BtAfterLastBar
    /\ ~IsNone(bt_open_position)
    /\ Len(bt_trades) >= 1
    /\ bt_open_position[1].entry_time < Last(bt_candles).time

----------------------------------------------------------------------------
(* C23: time-based exit of the daily-picks engine *)

\* the step processes bar sim_i with a position open at its start
SimBarWithPosition ==
    /\ sim_pc = "bar"
    /\ ~IsNone(sim_open_position)
    /\ sim_i' = sim_i + 1

SimLevelTouched(pos, candle) ==
    candle.low <= pos.stop_loss \/ candle.high >= pos.target

SimElapsedSeconds(pos, candle) == candle.time - pos.entry_time

\* C23: on a bar where neither stop-loss nor target triggers, the open
\* position is closed with trigger TIME_EXIT at the bar's close exactly
\* when the time since entry has reached max_trade_duration_minutes; when
\* stop-loss or target triggers on the bar, the trade is not a TIME_EXIT.
C23_TimeExit ==
    [][SimBarWithPosition
       => LET pos == sim_open_position[1]
              candle == sim_candles[sim_i + 1]
              due == SimElapsedSeconds(pos, candle)
                        >= 60 * sim_in.max_trade_duration_minutes
          IN  /\ (ExLong(pos) /\ SimLevelTouched(pos, candle))
                 => /\ Len(sim_trades') = Len(sim_trades) + 1
                    /\ Last(sim_trades').exit_trigger \in {"SL", "TARGET"}
              /\ (ExLong(pos) /\ ~SimLevelTouched(pos, candle) /\ due)
                 => /\ Len(sim_trades') = Len(sim_trades) + 1
                    /\ Last(sim_trades').exit_trigger = "TIME_EXIT"
                    /\ Last(sim_trades').exit_price = candle.close
                    /\ Last(sim_trades').exit_time = candle.time
                    /\ Last(sim_trades').entry_time = pos.entry_time
              /\ (ExLong(pos) /\ ~SimLevelTouched(pos, candle) /\ ~due)
                 => /\ sim_trades' = sim_trades
                    /\ sim_open_position' = sim_open_position]_vars

\* a position was held over one bar on which the limit of 10 minutes was
\* not yet reached and closed by TIME_EXIT on the bar where it was
C23_Witness ==
    /\ sim_in.max_trade_duration_minutes = 10
    /\ Len(sim_trades) >= 1
    /\ Last(sim_trades).exit_trigger = "TIME_EXIT"
    /\ Last(sim_trades).exit_time - Last(sim_trades).entry_time = 600

----------------------------------------------------------------------------
(* C24: equity of the daily-picks run *)

\* between two days, or after the last one: every started day is complete
DpBetweenDays ==
    /\ Len(dp_trading_days) > 0
    /\ dp_pc \in {"day_top", "skip_yield", "day_start_yield",
                  "day_complete_yield", "finish", "raised", "complete_yield",
                  "done"}

RECURSIVE DpResultsOf(_)
DpResultsOf(tasks) ==
    IF Len(tasks) = 0 THEN <<>>
    ELSE tasks[1].result \o DpResultsOf(Tail(tasks))

DpCount(trades, t) == Cardinality({k \in 1..Len(trades) : trades[k] = t})

\* C24: after every processed trading day and at the end of the run, the
\* running equity and the last point of the equity curve equal
\* initial_capital plus the sum of the pnl of all trades recorded so far,
\* and every trade a simulation returned is recorded exactly once.
C24_EquityConsistency ==
    DpBetweenDays
    => /\ dp_current_equity
             = dp_in.initial_capital + SumPnl(dp_all_trades)
       /\ Last(dp_equity_curve).equity
             = dp_in.initial_capital + SumPnl(dp_all_trades)
       /\ (dp_pc = "day_complete_yield")
             => Last(dp_events).current_equity
                   = dp_in.initial_capital + SumPnl(dp_all_trades)
       /\ Len(dp_all_trades) = Len(DpResultsOf(dp_tasks))
       /\ \A k \in 1..Len(dp_all_trades) :
             DpCount(dp_all_trades, dp_all_trades[k])
                = DpCount(DpResultsOf(dp_tasks), dp_all_trades[k])

\* a second day with trades has been completed after a first one with
\* trades
C24_Witness ==
    /\ dp_pc = "day_complete_yield"
    /\ Len(dp_equity_curve) >= 3
    /\ \E j \in 1..Len(dp_all_trades) : \E k \in 1..Len(dp_all_trades) :
          dp_all_trades[j].date < dp_all_trades[k].date
    /\ dp_current_equity # dp_in.initial_capital

----------------------------------------------------------------------------
(* C25, C26, C27: _compute_metrics *)

MetReturned == met_pc = "done" /\ met_out.kind = "return"

\* the curve of a run without a trade: empty, or every point at the
\* initial capital
MetFlatCurve ==
    \A k \in 1..Len(met_in.equity_curve) :
        met_in.equity_curve[k].equity = met_in.initial_capital

MetHasPnl(R(_)) == \E k \in 1..Len(met_in.trades) : R(met_in.trades[k].pnl)

IsPositive(x) == x > 0

IsNegative(x) == x < 0

IsZero(x) == x = 0

C26_WinLossPartition ==
    MetReturned
    => LET m == met_out.value
           n == Len(met_in.trades)
           W == {k \in 1..n : met_in.trades[k].pnl > 0}
           L == {k \in 1..n : met_in.trades[k].pnl <= 0}
       IN  /\ m.trade_count = n
           /\ m.wins = Cardinality(W)
           /\ m.losses = Cardinality(L)
           /\ m.wins + m.losses = m.trade_count
           /\ n > 0 => 2 * Abs(m.win_rate_pct * n - m.wins * 10000) <= n

\* metrics were computed for a win, a trade of zero pnl and a losing trade
C26_Witness ==
    /\ MetReturned
    /\ MetHasPnl(IsPositive)
    /\ MetHasPnl(IsZero)
    /\ MetHasPnl(IsNegative)

\* the largest of xs, 0 for none
MaxOf(xs) == IF xs = {} THEN 0 ELSE CHOOSE x \in xs : \A y \in xs : y <= x

MetEquities(k) == {met_in.equity_curve[j].equity : j \in 1..k}

MetNonDecreasing ==
    \A k \in 1..(Len(met_in.equity_curve) - 1) :
        met_in.equity_curve[k].equity <= met_in.equity_curve[k + 1].equity

----------------------------------------------------------------------------
(* C28, C29: the fee calculators *)

FeeCalled == Len(fee_out) >= 1

FeeTurnover(order) == order.price * order.qty

\* C28 (as claimed): calculate_fees returns the same value when called
\* again on the same arguments, and of two orders of the same side and
\* trade type the one with the larger turnover has the strictly larger
\* total fee.
C28_FeesStrictlyIncreasing ==
    /\ Len(fee_out) = 2 => fee_out[1] = fee_out[2]
    /\ (FeeCalled /\ FeeTurnover(fee_in.a) < FeeTurnover(fee_in.b))
       => /\ fee_out[1].utils_a < fee_out[1].utils_b
          /\ fee_out[1].monitor_a < fee_out[1].monitor_b

\* C28 (amended): calculate_fees returns the same value when called again
\* on the same arguments, and of two orders of the same side and trade type
\* the one with the larger turnover never has the smaller total fee; the
\* two fees are equal when they round to the same paise.
C28_FeesNonDecreasing ==
    /\ Len(fee_out) = 2 => fee_out[1] = fee_out[2]
    /\ (FeeCalled /\ FeeTurnover(fee_in.a) < FeeTurnover(fee_in.b))
       => /\ fee_out[1].utils_a <= fee_out[1].utils_b
          /\ fee_out[1].monitor_a <= fee_out[1].monitor_b
    /\ (FeeCalled /\ FeeTurnover(fee_in.a) = FeeTurnover(fee_in.b))
       => /\ fee_out[1].utils_a = fee_out[1].utils_b
          /\ fee_out[1].monitor_a = fee_out[1].monitor_b

\* the fees were computed twice for two orders of different turnover that
\* cost the same fee, which is not zero
C28_Witness ==
    /\ Len(fee_out) = 2
    /\ FeeTurnover(fee_in.a) < FeeTurnover(fee_in.b)
    /\ fee_out[2].utils_a = fee_out[2].utils_b
    /\ fee_out[2].utils_a > 0

\* C29: calculate_fees of position_monitor.py and of utils/fees.py return
\* the same total for the same order, and the two compute_exit_pnl return
\* the same (net_pnl, total_fees) for the same round trip.
C29_FeeParity ==
    \A k \in 1..Len(fee_out) :
        /\ fee_out[k].monitor_a = fee_out[k].utils_a
        /\ fee_out[k].monitor_b = fee_out[k].utils_b
        /\ fee_out[k].monitor_exit = fee_out[k].utils_exit

\* both modules priced a BUY order with a fee and a round trip that ends
\* with a profit after fees
C29_Witness ==
    /\ FeeCalled
    /\ fee_in.side = "BUY"
    /\ fee_out[1].monitor_a > 0
    /\ fee_out[1].monitor_exit.total_fees > 0
    /\ fee_out[1].monitor_exit.net_pnl > 0

----------------------------------------------------------------------------
(* C30: warm-up and flat-only evaluation *)

\* C30: in both engines algo.evaluate is called while bar i is processed
\* only if i >= 30 and no position is open once the exit check of bar i is
\* done; a series of 30 bars or fewer causes no evaluation, no position and
\* no trade.
C30_WarmUpFlatOnly ==
    /\ [](/\ ~IsNone(bt_eval) => bt_eval[1].i >= 30
          /\ ~IsNone(sim_eval) => sim_eval[1].i >= 30
          /\ Len(bt_candles) <= 30
             => IsNone(bt_eval) /\ bt_opened = 0 /\ bt_trades = <<>>
          /\ Len(sim_candles) <= 30
             => IsNone(sim_eval) /\ sim_opened = 0 /\ sim_trades = <<>>)
    /\ [][/\ bt_eval' # bt_eval
             => /\ bt_pc = "entry"
                /\ bt_i >= 30
                /\ IsNone(bt_open_position)
          /\ sim_eval' # sim_eval
             => /\ sim_pc = "bar"
                /\ sim_i >= 30
                /\ \/ IsNone(sim_open_position)
                   \/ Len(sim_trades') = Len(sim_trades) + 1]_vars

\* a session of 31 bars was evaluated on its last bar, index 30, and on no
\* earlier one, and opened a position there
C30_Witness ==
    /\ Len(sim_candles) = 31
    /\ ~IsNone(sim_eval)
    /\ sim_eval[1].i = 30
    /\ sim_opened = 1
    /\ ~sim_caught

----------------------------------------------------------------------------
(* C31: trade events of run_backtest *)

\* the 0-based index of the bar an event of the bar loop belongs to
BtEventBar(e) ==
    IF e.event_type = "trade"
    THEN (CHOOSE k \in 1..Len(bt_candles) :
              bt_candles[k].time = e.trade.exit_time) - 1
    ELSE e.bars_processed - 1

BtLoopEvents ==
    SelectSeq(bt_events, LAMBDA e : e.event_type \in {"trade", "progress"})

\* each event of the bar loop is followed by an event of a later bar, or
\* is the trade event of the bar whose progress event follows
BtEventsInBarOrder ==
    LET es == BtLoopEvents
    IN  \A j \in 1..(Len(es) - 1) :
            \/ BtEventBar(es[j]) < BtEventBar(es[j + 1])
            \/ /\ BtEventBar(es[j]) = BtEventBar(es[j + 1])
               /\ es[j].event_type = "trade"
               /\ es[j + 1].event_type = "progress"

\* C31: every closure appends one ClosedTrade and emits one 'trade' event
\* carrying it, in the same step, while the position is still held; the
\* position is cleared next, before any other event; the events of the bar
\* loop are in bar order, a bar's trade event before its progress event; the
\* trade events are the trade list, in order; a recorded trade and an
\* emitted event never change.
C31_ExactlyOnceTradeEvents ==
    /\ [](/\ Len(BtTradeEvents) = Len(bt_trades)
          /\ \A k \in 1..Len(bt_trades) : BtTradeEvents[k].trade = bt_trades[k]
          /\ BtEventsInBarOrder
          /\ (bt_pc = "trade_yield")
             => /\ ~IsNone(bt_open_position)
                /\ Last(bt_events) = BtTradeEvent(Last(bt_trades))
                /\ Last(bt_trades).entry_time = bt_open_position[1].entry_time
                /\ Last(bt_trades).exit_time = bt_candles[bt_i + 1].time)
    /\ [][/\ Len(bt_trades') >= Len(bt_trades)
          /\ Len(bt_events') >= Len(bt_events)
          /\ \A k \in 1..Len(bt_trades) : bt_trades'[k] = bt_trades[k]
          /\ \A k \in 1..Len(bt_events) : bt_events'[k] = bt_events[k]
          /\ (bt_trades' # bt_trades)
             => /\ Len(bt_trades') = Len(bt_trades) + 1
                /\ Len(bt_events') = Len(bt_events) + 1
                /\ Last(bt_events').event_type = "trade"
                /\ Last(bt_events').trade = Last(bt_trades')
                /\ ~IsNone(bt_open_position)
                /\ bt_open_position' = bt_open_position
                /\ bt_pc' = "trade_yield"
          /\ (Len(bt_events') > Len(bt_events)
                 /\ Last(bt_events').event_type = "trade")
             => bt_trades' = Append(bt_trades, Last(bt_events').trade)
          /\ (bt_pc = "trade_yield")
             => /\ IsNone(bt_open_position')
                /\ bt_events' = bt_events
                /\ bt_trades' = bt_trades
          /\ (~IsNone(bt_open_position) /\ IsNone(bt_open_position'))
             => bt_pc = "trade_yield"]_vars

\* two positions were closed, the second on the last bar, whose progress
\* event followed its trade event
C31_Witness ==
    /\ Len(bt_trades) = 2
    /\ Len(bt_events) >= 3
    /\ Last(bt_events).event_type = "progress"
    /\ Last(bt_events).bars_processed = Len(bt_candles)
    /\ bt_events[Len(bt_events) - 1].event_type = "trade"
    /\ bt_events[Len(bt_events) - 1].trade.exit_time = Last(bt_candles).time

----------------------------------------------------------------------------
(* C32: the chunk loop of get_candles *)

\* the dates one request asks the source for
ChunkSpan(call) == call.missing_dt[call.i + 1]..call.chunk_end

\* every request spans at most max_days calendar days, starts after the end
\* of the request before it, and the loop ends only when the last missing
\* date lies in a request's span
ChunksBoundedAndDisjoint ==
    \A c \in CacheCalls :
        LET me == cache_call[c]
        IN  /\ me.pc = "store"
               => /\ me.i < Len(me.missing_dt)
                  /\ me.missing_dt[me.i + 1] <= me.chunk_end
                  /\ me.chunk_end - me.missing_dt[me.i + 1] + 1
                        <= _interval_max_days(me.interval)
                  /\ \A k \in 1..me.i : me.missing_dt[k] < me.missing_dt[me.i + 1]
            /\ me.pc = "chunk"
               => /\ me.i < Len(me.missing_dt)
                  /\ me.fetches > 0 => me.missing_dt[me.i + 1] > me.chunk_end
            /\ (me.pc = "merge" /\ Len(me.missing_dt) > 0 /\ ~me.fetch_failed)
               => /\ me.i = Len(me.missing_dt)
                  /\ Last(me.missing_dt) <= me.chunk_end

\* a request asks only for dates that were missing when the call loaded the
\* cache
ChunksOnlyMissing ==
    \A c \in CacheCalls :
        LET me == cache_call[c]
        IN  me.pc = "store"
            => \A d \in ChunkSpan(me) :
                   \E k \in 1..Len(me.missing_dt) : me.missing_dt[k] = d

\* C32: the chunk loop terminates, every request spans at most the
\* interval's maximum number of calendar days, every missing date lies in
\* the span of exactly one request, and a request covers only a contiguous
\* run of missing dates (no already cached date is fetched again).
C32_ChunkedFill == ChunksBoundedAndDisjoint /\ ChunksOnlyMissing


----------------------------------------------------------------------------
(* C33: which of several candles with one timestamp is returned *)

\* the merged series of a call before sorting (lines 286-288)
MergedSeries(call) ==
    ExtendAll(call.cached_by_date, call.start_date, call.end_date)

\* the last candle of the series that carries the timestamp t
LastWithTime(cs, t) ==
    cs[CHOOSE k \in 1..Len(cs) :
           /\ cs[k].time = t
           /\ \A m \in (k + 1)..Len(cs) : cs[m].time # t]

\* C33: the dedupe of get_candles is last-write-wins: of several candles of
\* the merged series with the same timestamp, the returned list holds the
\* last one in merge order.
C33_LastWriteWins ==
    \A c \in CacheCalls :
        cache_call[c].pc = "returned" /\ cache_call[c].start_date <= cache_call[c].end_date
        => LET merged == MergedSeries(cache_call[c])
               result == cache_call[c].result[1]
           IN  \A k \in 1..Len(result) :
                   result[k] = LastWithTime(merged, result[k].time)


----------------------------------------------------------------------------
(* C34: the candidates simulated on a trading day *)

\* the futures submitted for a date, in submission order
DpSimulated(date) == SelectSeq(dp_tasks, LAMBDA t : t.date = date)

\* the candidate of the day's picks that a future simulates
DpCandidateOf(date, sym) ==
    CHOOSE c \in {dp_in.snapshots[date][1][k] :
                     k \in 1..Len(dp_in.snapshots[date][1])} : c.symbol = sym

\* a ranks before b: high conviction first, then the larger day change
DpRanksBefore(a, b) ==
    \/ a.high_conviction /\ ~b.high_conviction
    \/ /\ a.high_conviction = b.high_conviction
       /\ a.day_change_pct > b.day_change_pct

\* C34: on every trading day with picks the simulated candidates number
\* min(number of candidates, 3 * max_positions_per_day); each is a candidate
\* of that day, simulated once; every high-conviction one precedes every
\* other one; within a group they are in non-increasing day_change_pct
\* order; no candidate left out ranks before a simulated one; and nothing
\* else is simulated for that day.
C34_CandidateSelection ==
    \A d \in DateRange :
        LET sim == DpSimulated(d)
        IN  Len(sim) > 0
            => LET candidates == dp_in.snapshots[d][1]
                   symbols == {candidates[k].symbol : k \in 1..Len(candidates)}
                   chosen  == {sim[k].symbol : k \in 1..Len(sim)}
               IN  /\ ~IsNone(dp_in.snapshots[d])
                   /\ Len(sim) = Min2(Len(candidates),
                                      3 * dp_in.max_positions_per_day)
                   /\ chosen \subseteq symbols
                   /\ Cardinality(chosen) = Len(sim)
                   /\ \A j \in 1..Len(sim) : \A k \in (j + 1)..Len(sim) :
                         ~DpRanksBefore(DpCandidateOf(d, sim[k].symbol),
                                        DpCandidateOf(d, sim[j].symbol))
                   /\ \A x \in symbols \ chosen : \A y \in chosen :
                         ~DpRanksBefore(DpCandidateOf(d, x),
                                        DpCandidateOf(d, y))

\* a day with four candidates of both groups of which three were
\* simulated to the end
C34_Witness ==
    \E d \in DateRange :
        /\ Len(DpSimulated(d)) = 3
        /\ ~IsNone(dp_in.snapshots[d])
        /\ Len(dp_in.snapshots[d][1]) = 4
        /\ \A k \in 1..3 : DpSimulated(d)[k].state = "done"
        /\ DpCandidateOf(d, DpSimulated(d)[1].symbol).high_conviction
        /\ ~DpCandidateOf(d, DpSimulated(d)[3].symbol).high_conviction


----------------------------------------------------------------------------
(* C35: progress events of run_backtest *)

BtProgressEvents == SelectSeq(bt_events, LAMBDA e : e.event_type = "progress")

\* the bar indices whose loop body has reached its end
BtBarsDecided ==
    0..(bt_i - 1) \cup (IF bt_pc = "progress_yield" THEN {bt_i} ELSE {})

\* C35: a progress event exists for bar index i exactly when the bar was
\* processed and i mod max(1, total_bars div 20) = 0 or i is the last bar;
\* bars_processed (= i + 1) is strictly increasing over the progress events;
\* and once the loop has ended the last progress event reports
\* bars_processed = total_bars.
C35_ProgressEvents ==
    LET ps == BtProgressEvents
        total_bars == Len(bt_candles)
        step == IF total_bars \div 20 > 1 THEN total_bars \div 20 ELSE 1
    IN  /\ {ps[k].bars_processed - 1 : k \in 1..Len(ps)}
              = {i \in BtBarsDecided : i % step = 0 \/ i = total_bars - 1}
        /\ \A k \in 1..Len(ps) : ps[k].total_bars = total_bars
        /\ \A k \in 1..(Len(ps) - 1) :
              ps[k].bars_processed < ps[k + 1].bars_processed
        /\ (bt_i = total_bars /\ total_bars > 0)
              => /\ Len(ps) > 0
                 /\ Last(ps).bars_processed = total_bars

\* a run over 42 bars (step 2, last index 41) past its loop: 21 events for
\* the even indices and one for the last bar
C35_Witness ==
    /\ Len(bt_candles) = 42
    /\ bt_i = 42
    /\ Len(BtProgressEvents) = 22
    /\ BtProgressEvents[21].bars_processed = 41
    /\ BtProgressEvents[22].bars_processed = 42


----------------------------------------------------------------------------
(* C40: trade timing in run_backtest *)

\* the time of the bar whose loop body is executing
BtBarTime == bt_candles[bt_i + 1].time

\* C40: over a strictly ascending candle series every closed trade of
\* run_backtest has exit_time > entry_time, the exit check never looks at a
\* position on the bar on which it was opened, and each trade's entry_time
\* is at least the exit_time of the trade before it (so is the entry_time
\* of the position held).
C40_TradeTiming ==
    /\ \A k \in 1..(Len(bt_candles) - 1) :
          bt_candles[k].time < bt_candles[k + 1].time
    /\ \A k \in 1..Len(bt_trades) :
          bt_trades[k].exit_time > bt_trades[k].entry_time
    /\ \A k \in 1..(Len(bt_trades) - 1) :
          bt_trades[k + 1].entry_time >= bt_trades[k].exit_time
    /\ (bt_pc = "bar" /\ ~IsNone(bt_open_position))
          => bt_open_position[1].entry_time < BtBarTime
    /\ (bt_pc # "trade_yield" /\ ~IsNone(bt_open_position)
           /\ Len(bt_trades) > 0)
          => bt_open_position[1].entry_time >= Last(bt_trades).exit_time

\* two trades, the second opened on the bar that closed the first and
\* closed on the bar after it
C40_Witness ==
    /\ Len(bt_trades) = 2
    /\ bt_trades[2].entry_time = bt_trades[1].exit_time
    /\ bt_trades[2].exit_time = bt_trades[2].entry_time + BarSeconds
    /\ bt_trades[1].exit_time = bt_trades[1].entry_time + BarSeconds


----------------------------------------------------------------------------
(* C36: closing updates of one trade by the monitor and the engine *)

\* C36: no trade receives two closing updates: once a closer has written
\* status, exit_price and exit_trigger, no second closer that read the trade
\* while it was OPEN writes them again.
C36_ClosedAtMostOnce ==
    \A k \in 1..Len(lv_ledger) : lv_ledger[k].closes <= 1

----------------------------------------------------------------------------
(* C37: the per-algorithm position cap *)

OpenOfAlgo(algo_id) ==
    {k \in 1..Len(lv_ledger) :
        lv_ledger[k].status = "OPEN" /\ lv_ledger[k].algo_id = algo_id}

\* C37: when _run_cycle has returned no algorithm holds more open positions
\* than max_positions_per_algo, the positions opened in that cycle included.
C37_PerAlgoCap ==
    ae_pc = "cycle_done"
    => \A a \in 1..Len(LiveAlgos) :
          Cardinality(OpenOfAlgo(LiveAlgos[a]))
             <= lv_config.max_positions_per_algo


----------------------------------------------------------------------------
(* C38: an exit whose SELL order could not be placed *)

\* the last _check_exit of the running cycle found a trigger and could not
\* place the SELL order
PmSellFailed ==
    ~IsNone(pm_last_exit) /\ ~pm_last_exit[1].sell_succeeded

\* C38: when _check_exit finds a trigger for a live trade and placing the
\* SELL order raises, the step leaves the ledger as it is: the trade stays
\* OPEN without exit price, P&L or trigger for the rest of the cycle, and
\* the next polling cycle lists it among the open trades again.
C38_FailedExitKeepsOpen ==
    /\ [](PmSellFailed
            => LET row == lv_ledger[pm_last_exit[1].id]
               IN  /\ ~row.is_paper
                   /\ row.status = "OPEN"
                   /\ IsNone(row.exit_price)
                   /\ IsNone(row.actual_pnl)
                   /\ IsNone(row.exit_trigger)
                   /\ row.closes = 0)
    /\ [][/\ (/\ pm_pc = "exit_check"
              /\ pm_last_exit' # pm_last_exit
              /\ ~pm_last_exit'[1].sell_succeeded)
             => lv_ledger' = lv_ledger
          /\ (pm_pc = "top" /\ PmSellFailed /\ pm_cycle' # "failed")
             => /\ pm_pc' = "rejected_check"
                /\ \E k \in 1..Len(pm_open_trades') :
                      pm_open_trades'[k].id = pm_last_exit[1].id]_vars

\* the monitor is about to start the cycle after one in which the SELL
\* order of a live trade at its target could not be placed
C38_Witness ==
    /\ pm_pc = "top"
    /\ PmSellFailed
    /\ pm_last_exit[1].trigger = "TARGET"
    /\ lv_ledger[pm_last_exit[1].id].status = "OPEN"

----------------------------------------------------------------------------
(* C39: the polling backoff of the monitor *)

\* pm_failed_cycles counts the failed cycles (no price at all, or an
\* exception) that ended one directly after the other
IntervalAfter(k) == Min2(_base_interval * 2^k, _max_interval)

\* C39: the poll interval lies between 5 s and 60 s; after k
\* consecutive failed cycles it equals min(5 * 2^k, 60); after a cycle in
\* which a price was fetched and no exception occurred the failure count is
\* 0 and the interval 5 s.
C39_BackoffByConsecutiveCycles ==
    /\ _base_interval <= pm_poll_interval
    /\ pm_poll_interval <= _max_interval
    /\ (pm_pc = "sleep" /\ pm_failed_cycles > 0)
          => pm_poll_interval = IntervalAfter(pm_failed_cycles)
    /\ (pm_pc = "sleep" /\ pm_cycle = "ok")
          => pm_consecutive_failures = 0 /\ pm_poll_interval = _base_interval

\* C39 (the part that holds): the poll interval lies between 5 s and 60 s and is 5 s
\* when the failure count is 0, min(5 * 2^count, 60) otherwise; a failure
\* (no price fetched for any symbol, or an exception) adds one to the count,
\* a fetch that returned a price sets the count to 0, also when an exception
\* later in that cycle makes it 1 again, and a cycle without open trades
\* changes neither count nor interval; after a cycle in which a price was
\* fetched and no exception occurred the count is 0 and the interval 5 s.
C39_Backoff ==
    /\ [](/\ _base_interval <= pm_poll_interval
          /\ pm_poll_interval <= _max_interval
          /\ pm_poll_interval = IF pm_consecutive_failures = 0
                                THEN _base_interval
                                ELSE IntervalAfter(pm_consecutive_failures)
          /\ (pm_pc = "sleep" /\ pm_cycle = "ok")
                => /\ pm_consecutive_failures = 0
                   /\ pm_poll_interval = _base_interval)
    /\ [][/\ (pm_cycle' = "failed" /\ (pm_pc = "top" \/ pm_cycle = "ok"))
             => pm_consecutive_failures' = pm_consecutive_failures + 1
          /\ (pm_pc = "top" /\ pm_cycle' = "ok")
             => pm_consecutive_failures' = 0
          /\ (pm_pc = "top" /\ pm_cycle' = "idle")
             => /\ pm_consecutive_failures' = pm_consecutive_failures
                /\ pm_poll_interval' = pm_poll_interval
          /\ (pm_pc # "top" /\ pm_cycle' = pm_cycle)
             => /\ pm_consecutive_failures' = pm_consecutive_failures
                /\ pm_poll_interval' = pm_poll_interval]_vars

====
